---- MODULE Spec2Model ----
(***************************************************************************)
(* Authentication and session-integrity subsystem of the todolist backend: *)
(* the OAuth state protector (internal/auth/state.go), the token service   *)
(* and account resolver (internal/service/auth_service.go), the user       *)
(* repository (internal/repository/user_repo.go with its SQL queries), the *)
(* profile update (internal/service/user_service.go), the handlers         *)
(* (internal/api/handlers.go) and AuthMiddleware (internal/api/middleware.go). *)
(*                                                                         *)
(* Time is counted in ticks of half a second, so that the truncation of    *)
(* time.Now().Unix() to whole seconds is visible.  Strings that the code   *)
(* splits, signs or compares character by character (state tokens) are    *)
(* sequences of one-character strings.                                     *)
(***************************************************************************)
EXTENDS Integers, Sequences, FiniteSets, TLC

VARIABLES
    now,          \* the wall clock, in ticks
    sgn,          \* state protector: the last SignState call and its result
    signedState,  \* state protector: the token that is presented to Verify
    alteredAt,    \* state protector: position of signedState that was altered (0: none)
    sv,           \* state protector: the last VerifyAndExtractState call and its result
    users,        \* the rows of the users table
    nextId,       \* the id that the next inserted row gets
    last,         \* the last request served: its inputs and its response
    inflight,     \* the OAuth callbacks being served: where each is, what it has read
    cfg,          \* the server process: whether it runs, and the state secret it loaded
    tagRow,       \* tags table: the row of the one tag followed here
    tagCache,     \* the cache entry under that tag's key
    tagCalls,     \* the calls of the caching tag repository: where each is
    store,        \* frontend auth store: user, token, isAuthenticated, hydrated
    localStorage, \* the browser's localStorage: the keys "token" and "auth-storage"
    validations,  \* the validateToken promises that have not settled
    loggedOut     \* whether logout() has run since the last login()

stateVars == <<sgn, signedState, alteredAt, sv>>

acctVars == <<users, nextId, last>>

tagVars == <<tagRow, tagCache, tagCalls>>

storeVars == <<store, localStorage, validations, loggedOut>>

serverVars == <<now, sgn, signedState, alteredAt, sv, users, nextId, last, inflight, cfg>>

vars == <<now, sgn, signedState, alteredAt, sv, users, nextId, last, inflight, cfg,
          tagVars, storeVars>>

----------------------------------------------------------------------------
(* Bounds *)

MaxNonceLen == 1

MaxUsers == 2

TicksPerSec == 2

(* Program constants *)

StateSeparator == "."

\* a window of an hour instead of ten minutes
StateExpiry_Hour == 60 * 60

StateExpiry == 600

ErrInvalidStateFormat == "invalid state format"

ErrInvalidStateMAC == "invalid state MAC (tampered?)"

ErrStateExpired == "state expired"

NoErr == ""

----------------------------------------------------------------------------
(* Characters and strings *)

Digits == <<"0", "1", "2", "3", "4", "5", "6", "7", "8", "9">>

HexDigits == Digits \o <<"a", "b", "c", "d", "e", "f">>

\* the characters of the nonces, of the timestamps and of the alterations
Alphabet == Digits \o <<"a", "b", "f", StateSeparator>>

Range(s) == {s[i] : i \in 1..Len(s)}

CharCode(c) == CHOOSE i \in 1..Len(Alphabet) : Alphabet[i] = c

DigitVal(c) == (CHOOSE i \in 1..Len(Digits) : Digits[i] = c) - 1

\* strings over the characters cs, of length lo..hi
StringsOver(cs, lo, hi) == UNION {[1..n -> cs] : n \in lo..hi}

\* fmt.Sprintf("%d", n) for n >= 0
RECURSIVE Itoa(_)
Itoa(n) == IF n < 10 THEN <<Digits[n + 1]>> ELSE Itoa(n \div 10) \o <<Digits[(n % 10) + 1]>>

\* strings.Split(s, sep) for a one-character separator
RECURSIVE SplitFrom(_, _, _, _)
SplitFrom(s, sep, i, cur) ==
    IF i > Len(s) THEN <<cur>>
    ELSE IF s[i] = sep THEN <<cur>> \o SplitFrom(s, sep, i + 1, <<>>)
    ELSE SplitFrom(s, sep, i + 1, Append(cur, s[i]))

Split(s, sep) == SplitFrom(s, sep, 1, <<>>)

RECURSIVE NumInBase(_, _, _)
NumInBase(s, base, acc) ==
    IF s = <<>> THEN acc ELSE NumInBase(Tail(s), base, acc * base + DigitVal(Head(s)))

\* fmt.Sscan(s, &int64): decimal digits, or octal digits after a leading
\* "0"; anything else is a scan error.  (The token never holds a sign, a
\* "0x"/"0b" prefix or white space unless its signer put one there.)
SscanOk(s) ==
    /\ Len(s) >= 1
    /\ Range(s) \subseteq Range(Digits)
    /\ (Len(s) > 1 /\ s[1] = "0") => Range(s) \subseteq {"0", "1", "2", "3", "4", "5", "6", "7"}

SscanVal(s) == IF Len(s) > 1 /\ s[1] = "0" THEN NumInBase(s, 8, 0) ELSE NumInBase(s, 10, 0)

----------------------------------------------------------------------------
(* The clock *)

\* the instants the clock visits, as offsets in ticks from the first one
TimeOffsets == {0, 1, 599 * TicksPerSec, 599 * TicksPerSec + 1,
                601 * TicksPerSec, 601 * TicksPerSec + 1}

StartTime == 700 * TicksPerSec + 1

TimePoints == {StartTime + d : d \in TimeOffsets}

\* time.Now().Unix()
Unix(t) == t \div TicksPerSec

----------------------------------------------------------------------------
(* State protector: internal/auth/state.go *)

Keys == <<"state-secret", "other-secret">>

KeyCode(k) == CHOOSE i \in 1..Len(Keys) : Keys[i] = k

\* the state values (uuid strings in the code): one of each length, and a
\* second one to mismatch
Nonces == StringsOver({"a"}, 1, MaxNonceLen) \cup {<<"b">>}

MaxTsLen == 4

MaxMsgLen == MaxNonceLen + 1 + MaxTsLen

\* hex.EncodeToString(hmac.New(sha256.New, key).Sum(message)): a keyed
\* digest of fixed length in lower-case hex.  The digest is collision free
\* on the messages of the model: its digit j is determined by the key and
\* by character j of the message (by the key alone past its end), it
\* differs for different characters, and for different keys.
MacDigit(key, message, j) ==
    IF j <= Len(message) THEN (CharCode(message[j]) + 5 * KeyCode(key) + j) % 16
    ELSE (5 * KeyCode(key) + j) % 16

HmacSha256Hex(key, message) ==
    [j \in 1..(MaxMsgLen + 1) |-> HexDigits[MacDigit(key, message, j) + 1]]

\* a slip in the comparison of the signatures: only their first bytes are compared
VerifyAndExtractState_PrefixMac(token, secretKey, t) ==
    LET parts == Split(token, StateSeparator)
    IN  IF Len(parts) # 3 THEN [nonce |-> <<>>, err |-> ErrInvalidStateFormat]
        ELSE LET expectedSignature ==
                     HmacSha256Hex(secretKey, parts[1] \o <<StateSeparator>> \o parts[2])
             IN  IF Len(parts[3]) < 2 \/ SubSeq(parts[3], 1, 2) # SubSeq(expectedSignature, 1, 2)
                 THEN [nonce |-> <<>>, err |-> ErrInvalidStateMAC]
                 ELSE IF ~SscanOk(parts[2])
                 THEN [nonce |-> <<>>, err |-> ErrInvalidStateFormat]
                 ELSE IF t - SscanVal(parts[2]) * TicksPerSec > StateExpiry * TicksPerSec
                 THEN [nonce |-> <<>>, err |-> ErrStateExpired]
                 ELSE [nonce |-> parts[1], err |-> NoErr]

\* SignState and VerifyAndExtractState panic when the key is empty, before
\* they do anything else
EmptyKeyPanic(secretKey) == Len(secretKey) = 0

SignState(stateValue, secretKey, t) ==
    LET message == stateValue \o <<StateSeparator>> \o Itoa(Unix(t))
    IN  message \o <<StateSeparator>> \o HmacSha256Hex(secretKey, message)

\* a slip: the age of the timestamp is not checked
VerifyAndExtractState_NoExpiry(token, secretKey, t) ==
    LET parts == Split(token, StateSeparator)
    IN  IF Len(parts) # 3 THEN [nonce |-> <<>>, err |-> ErrInvalidStateFormat]
        ELSE LET message == parts[1] \o <<StateSeparator>> \o parts[2]
             IN  IF parts[3] # HmacSha256Hex(secretKey, message)
                 THEN [nonce |-> <<>>, err |-> ErrInvalidStateMAC]
                 ELSE IF ~SscanOk(parts[2])
                 THEN [nonce |-> <<>>, err |-> ErrInvalidStateFormat]
                 ELSE [nonce |-> parts[1], err |-> NoErr]

VerifyAndExtractState(token, secretKey, t) ==
    LET parts == Split(token, StateSeparator)
    IN  IF Len(parts) # 3 THEN [nonce |-> <<>>, err |-> ErrInvalidStateFormat]
        ELSE LET originalState == parts[1]
                 timestampStr == parts[2]
                 receivedSignature == parts[3]
                 message == originalState \o <<StateSeparator>> \o timestampStr
                 expectedSignature == HmacSha256Hex(secretKey, message)
             IN  IF receivedSignature # expectedSignature
                 THEN [nonce |-> <<>>, err |-> ErrInvalidStateMAC]
                 ELSE IF ~SscanOk(timestampStr)
                 THEN [nonce |-> <<>>, err |-> ErrInvalidStateFormat]
                 ELSE IF t - SscanVal(timestampStr) * TicksPerSec > StateExpiry * TicksPerSec
                 THEN [nonce |-> <<>>, err |-> ErrStateExpired]
                 ELSE [nonce |-> originalState, err |-> NoErr]

----------------------------------------------------------------------------
(* Domain: internal/domain/user.go, internal/domain/errors.go *)

ErrNotFound == "resource not found"

ErrConflict == "resource conflict (e.g., duplicate)"

ErrUnauthorized == "authentication required or failed"

ErrInternalServer == "internal server error"

ErrValidation == "validation failed"

\* any other error of the database driver
ErrDatabase == "database error"

\* a nil *string / a NULL google_id
Null == "NULL"

\* the zero value of domain.User (id uuid.Nil); also stands for a nil *domain.User
NoUser == [id |-> 0, username |-> "", email |-> "", passwordHash |-> "",
           emailVerified |-> FALSE, googleID |-> Null]

----------------------------------------------------------------------------
(* User repository: internal/repository/user_repo.go, queries/users.sql, *)
(* and the users table of the first migration                            *)

MaxUsernameLength == 50

\* DELETE FROM users WHERE id = $1
Delete(us, id) == {x \in us : x.id # id}

GetByID(us, id) == IF \E x \in us : x.id = id THEN CHOOSE x \in us : x.id = id ELSE NoUser

GetByEmail(us, email) ==
    IF \E x \in us : x.email = email THEN CHOOSE x \in us : x.email = email ELSE NoUser

GetByGoogleID(us, googleID) ==
    IF \E x \in us : x.googleID = googleID THEN CHOOSE x \in us : x.googleID = googleID
    ELSE NoUser

\* a slip: the e-mail column is declared without UNIQUE
UniqueViolation_NoEmail(us, u) ==
    \E x \in us : /\ x.id # u.id
                  /\ \/ x.username = u.username
                     \/ (u.googleID # Null /\ x.googleID = u.googleID)

\* the UNIQUE constraints of the users table, for the row u against the other rows
UniqueViolation(us, u) ==
    \E x \in us : /\ x.id # u.id
                  /\ \/ x.username = u.username
                     \/ x.email = u.email
                     \/ (u.googleID # Null /\ x.googleID = u.googleID)

\* INSERT INTO users ... RETURNING *, with id the fresh uuid of the row
Create(us, u, id) ==
    LET row == [u EXCEPT !.id = id]
    IN  IF Len(u.username) > MaxUsernameLength
        THEN [users |-> us, user |-> NoUser, err |-> ErrDatabase]
        ELSE IF UniqueViolation(us, row)
        THEN [users |-> us, user |-> NoUser, err |-> ErrConflict]
        ELSE [users |-> us \cup {row}, user |-> row, err |-> NoErr]

\* a slip: google_id is assigned without COALESCE
Update_NoCoalesce(us, id, u) ==
    LET old == GetByID(us, id)
        row == [old EXCEPT
                  !.username = IF u.username # "" THEN u.username ELSE @,
                  !.email = IF u.email # "" THEN u.email ELSE @,
                  !.emailVerified = u.emailVerified,
                  !.googleID = u.googleID]
    IN  IF old = NoUser THEN [users |-> us, user |-> NoUser, err |-> ErrNotFound]
        ELSE IF UniqueViolation(us, row)
        THEN [users |-> us, user |-> NoUser, err |-> ErrConflict]
        ELSE [users |-> (us \ {old}) \cup {row}, user |-> row, err |-> NoErr]

\* UPDATE users SET col = COALESCE(arg, col) ... RETURNING *: an empty
\* Username or Email and a nil GoogleID leave the column alone, while
\* EmailVerified is always written
Update(us, id, u) ==
    LET old == GetByID(us, id)
        row == [old EXCEPT
                  !.username = IF u.username # "" THEN u.username ELSE @,
                  !.email = IF u.email # "" THEN u.email ELSE @,
                  !.emailVerified = u.emailVerified,
                  !.googleID = IF u.googleID # Null THEN u.googleID ELSE @]
    IN  IF old = NoUser THEN [users |-> us, user |-> NoUser, err |-> ErrNotFound]
        ELSE IF Len(row.username) > MaxUsernameLength
        THEN [users |-> us, user |-> NoUser, err |-> ErrDatabase]
        ELSE IF UniqueViolation(us, row)
        THEN [users |-> us, user |-> NoUser, err |-> ErrConflict]
        ELSE [users |-> (us \ {old}) \cup {row}, user |-> row, err |-> NoErr]

----------------------------------------------------------------------------
(* Token service: authService.GenerateJWT, authService.ValidateJWT *)

JWTSecret == "jwt-secret"

JWTExpiryMinutes == 60

\* the signing methods a token header can name
Algs == {"HS256", "HS384", "RS256"}

\* *jwt.SigningMethodHMAC
HmacAlgs == {"HS256", "HS384", "HS512"}

\* the zero token; also stands for a string that is not three base64 segments
NoToken == [alg |-> "", uid |-> 0, sub |-> 0, iat |-> 0, exp |-> 0, key |-> ""]

\* a slip: the lifetime is not added to the expiry
GenerateJWT_NoLifetime(user, t) ==
    [alg |-> "HS256", uid |-> user.id, sub |-> user.id,
     iat |-> Unix(t), exp |-> Unix(t), key |-> JWTSecret]

\* a token: its header algorithm, its claims, and the key its signature
\* was computed with (under the algorithm of the header)
GenerateJWT(user, t) ==
    [alg |-> "HS256", uid |-> user.id, sub |-> user.id,
     iat |-> Unix(t), exp |-> Unix(t + JWTExpiryMinutes * 60 * TicksPerSec),
     key |-> JWTSecret]

JwtResult(user, err, msg) == [user |-> user, err |-> err, msg |-> msg]

\* a slip: the parser is told to skip the validation of the claims
ValidateJWT_SkipClaims(us, tok, t) ==
    IF tok = NoToken
    THEN JwtResult(NoUser, ErrUnauthorized, "token is malformed")
    ELSE IF tok.alg \notin HmacAlgs \/ tok.key # JWTSecret
    THEN JwtResult(NoUser, ErrUnauthorized, "invalid token")
    ELSE IF GetByID(us, tok.uid) = NoUser
    THEN JwtResult(NoUser, ErrUnauthorized, "user associated with token not found")
    ELSE JwtResult(GetByID(us, tok.uid), NoErr, "")

\* a slip: a lookup that finds no user is reported like a failure of the
\* database
ValidateJWT_NotFoundInternal(us, tok, t) ==
    IF tok = NoToken
    THEN JwtResult(NoUser, ErrUnauthorized, "token is malformed")
    ELSE IF tok.alg \notin HmacAlgs \/ tok.key # JWTSecret
    THEN JwtResult(NoUser, ErrUnauthorized, "invalid token")
    ELSE IF ~(t < tok.exp * TicksPerSec)
    THEN JwtResult(NoUser, ErrUnauthorized, "token has expired")
    ELSE IF GetByID(us, tok.uid) = NoUser
    THEN JwtResult(NoUser, ErrInternalServer, "internal server error")
    ELSE JwtResult(GetByID(us, tok.uid), NoErr, "")

\* jwt.ParseWithClaims: segments and JSON, then the key function, then the
\* signature, then the registered claims (exp against the clock); after it
\* the lookup of the user of the claims
ValidateJWT(us, tok, t) ==
    IF tok = NoToken
    THEN JwtResult(NoUser, ErrUnauthorized, "token is malformed")
    ELSE IF tok.alg \notin HmacAlgs
    THEN JwtResult(NoUser, ErrUnauthorized, "invalid token")
    ELSE IF tok.key # JWTSecret
    THEN JwtResult(NoUser, ErrUnauthorized, "invalid token")
    ELSE IF ~(t < tok.exp * TicksPerSec)
    THEN JwtResult(NoUser, ErrUnauthorized, "token has expired")
    ELSE IF GetByID(us, tok.uid) = NoUser
    THEN JwtResult(NoUser, ErrUnauthorized, "user associated with token not found")
    ELSE JwtResult(GetByID(us, tok.uid), NoErr, "")

----------------------------------------------------------------------------
(* Account resolver: authService.Signup, Login, HandleGoogleCallback *)

MinUsernameLength == 3

MinPasswordLength == 6

ValidEmails == {"a@x.io", "b@x.io"}

ValidateUsername(username) ==
    Len(username) >= MinUsernameLength /\ Len(username) <= MaxUsernameLength

\* mail.ParseAddress accepts the address
ValidateEmail(email) == email \in ValidEmails

ValidatePassword(password) == Len(password) >= MinPasswordLength

\* bcrypt.GenerateFromPassword / bcrypt.CompareHashAndPassword
BcryptHash(password) == "$2a$" \o password

BcryptMatches(hash, password) == hash = BcryptHash(password)

SvcResult(us, tok, u, err, msg, r, c, w) ==
    [users |-> us, token |-> tok, user |-> u, err |-> err, msg |-> msg,
     reads |-> r, creates |-> c, updates |-> w]

Signup(us, creds, id) ==
    IF ~ValidateUsername(creds.username)
    THEN SvcResult(us, NoToken, NoUser, ErrValidation, "username must be between 3 and 50 characters", 0, 0, 0)
    ELSE IF ~ValidateEmail(creds.email)
    THEN SvcResult(us, NoToken, NoUser, ErrValidation, "invalid email format", 0, 0, 0)
    ELSE IF ~ValidatePassword(creds.password)
    THEN SvcResult(us, NoToken, NoUser, ErrValidation, "password must be at least 6 characters", 0, 0, 0)
    ELSE LET newUser == [NoUser EXCEPT !.username = creds.username, !.email = creds.email,
                                       !.passwordHash = BcryptHash(creds.password),
                                       !.emailVerified = FALSE]
             created == Create(us, newUser, id)
         IN  IF created.err = ErrConflict
             THEN IF GetByEmail(us, creds.email) # NoUser
                  THEN SvcResult(us, NoToken, NoUser, ErrConflict, "email already exists", 1, 0, 0)
                  ELSE SvcResult(us, NoToken, NoUser, ErrConflict, "username already exists", 1, 0, 0)
             ELSE IF created.err # NoErr
             THEN SvcResult(us, NoToken, NoUser, ErrInternalServer, "", 0, 0, 0)
             ELSE SvcResult(created.users, NoToken, created.user, NoErr, "", 0, 1, 0)

\* a slip: the password is not compared with the hash
Login_SkipCompare(us, creds, t) ==
    LET user == GetByEmail(us, creds.email)
    IN  IF ~ValidateEmail(creds.email) \/ creds.password = ""
        THEN SvcResult(us, NoToken, NoUser, ErrValidation, "invalid input", 0, 0, 0)
        ELSE IF user = NoUser
        THEN SvcResult(us, NoToken, NoUser, ErrUnauthorized, "invalid email or password", 1, 0, 0)
        ELSE IF user.passwordHash = ""
        THEN SvcResult(us, NoToken, NoUser, ErrUnauthorized, "please log in using Google", 1, 0, 0)
        ELSE SvcResult(us, GenerateJWT(user, t), user, NoErr, "", 1, 0, 0)

\* a slip: an unknown e-mail address is reported as NotFound
Login_RevealUnknown(us, creds, t) ==
    LET user == GetByEmail(us, creds.email)
    IN  IF ~ValidateEmail(creds.email) \/ creds.password = ""
        THEN SvcResult(us, NoToken, NoUser, ErrValidation, "invalid input", 0, 0, 0)
        ELSE IF user = NoUser
        THEN SvcResult(us, NoToken, NoUser, ErrNotFound, "resource not found", 1, 0, 0)
        ELSE IF user.passwordHash = ""
        THEN SvcResult(us, NoToken, NoUser, ErrUnauthorized, "please log in using Google", 1, 0, 0)
        ELSE IF ~BcryptMatches(user.passwordHash, creds.password)
        THEN SvcResult(us, NoToken, NoUser, ErrUnauthorized, "invalid email or password", 1, 0, 0)
        ELSE SvcResult(us, GenerateJWT(user, t), user, NoErr, "", 1, 0, 0)

Login(us, creds, t) ==
    IF ~ValidateEmail(creds.email)
    THEN SvcResult(us, NoToken, NoUser, ErrValidation, "invalid email format", 0, 0, 0)
    ELSE IF creds.password = ""
    THEN SvcResult(us, NoToken, NoUser, ErrValidation, "password is required", 0, 0, 0)
    ELSE LET user == GetByEmail(us, creds.email)
         IN  IF user = NoUser
             THEN SvcResult(us, NoToken, NoUser, ErrUnauthorized, "invalid email or password", 1, 0, 0)
             ELSE IF user.passwordHash = "" /\ user.googleID # Null
             THEN SvcResult(us, NoToken, NoUser, ErrUnauthorized, "please log in using Google", 1, 0, 0)
             ELSE IF user.passwordHash = ""
             THEN SvcResult(us, NoToken, NoUser, ErrInternalServer, "account error, please contact support", 1, 0, 0)
             ELSE IF ~BcryptMatches(user.passwordHash, creds.password)
             THEN SvcResult(us, NoToken, NoUser, ErrUnauthorized, "invalid email or password", 1, 0, 0)
             ELSE SvcResult(us, GenerateJWT(user, t), user, NoErr, "", 1, 0, 0)

\* userService.UpdateUser, with username the Username of the input (Null:
\* nil); the update data is a zero domain.User but for the Username
UpdateUser(us, userID, username) ==
    LET existingUser == GetByID(us, userID)
        updated == Update(us, userID, [NoUser EXCEPT !.username = username])
    IN  IF existingUser = NoUser
        THEN SvcResult(us, NoToken, NoUser, ErrNotFound, "", 1, 0, 0)
        ELSE IF username = Null
        THEN SvcResult(us, NoToken, existingUser, NoErr, "", 1, 0, 0)
        ELSE IF ~ValidateUsername(username)
        THEN SvcResult(us, NoToken, NoUser, ErrValidation,
                       "username must be between 3 and 50 characters", 1, 0, 0)
        ELSE IF updated.err = ErrConflict
        THEN SvcResult(us, NoToken, NoUser, ErrConflict,
                       "username '" \o username \o "' is already taken", 2, 0, 0)
        ELSE IF updated.err # NoErr
        THEN SvcResult(us, NoToken, NoUser, ErrInternalServer, "", 2, 0, 0)
        ELSE SvcResult(updated.users, NoToken, updated.user, NoErr, "", 2, 0, 1)

\* what the identity provider answers to ExchangeCode and FetchUserInfo
GoogleIDs == {"g1", "g2"}

DisplayNames == {"al", "bob"}

NoProfile == [id |-> "", email |-> "", verifiedEmail |-> FALSE, name |-> ""]

Profiles == [id : GoogleIDs, email : ValidEmails, verifiedEmail : BOOLEAN, name : DisplayNames]

ProviderOutcomes ==
    {[kind |-> k, profile |-> NoProfile] : k \in {"exchange_failed", "userinfo_failed"}}
        \cup {[kind |-> "profile", profile |-> p] : p \in Profiles}

\* a slip: an e-mail address already bound to another Google account is
\* bound to the new one
LinkOrConflict_Relink(us, user, userInfo, t) ==
    LET updated == Update(us, user.id, [NoUser EXCEPT !.googleID = userInfo.id,
                                                     !.emailVerified = TRUE])
    IN  SvcResult(updated.users, GenerateJWT(updated.user, t), updated.user, NoErr, "", 3, 0, 1)

\* a slip: the link sets the Google ID and leaves EmailVerified at its zero value
LinkOrConflict_Unverified(us, user, userInfo, t) ==
    LET updated == Update(us, user.id, [NoUser EXCEPT !.googleID = userInfo.id])
    IN  IF user.googleID # Null /\ user.googleID # userInfo.id
        THEN SvcResult(us, NoToken, NoUser, ErrConflict,
                       "email already linked to a different Google account", 2, 0, 0)
        ELSE SvcResult(updated.users, GenerateJWT(updated.user, t), updated.user, NoErr, "", 3, 0, 1)

\* a slip: the link also takes the display name of the profile as username
LinkOrConflict_TakeName(us, user, userInfo, t) ==
    IF user.googleID # Null /\ user.googleID # userInfo.id
    THEN SvcResult(us, NoToken, NoUser, ErrConflict,
                   "email already linked to a different Google account", 2, 0, 0)
    ELSE IF user.googleID = Null
    THEN LET updateData == [NoUser EXCEPT !.googleID = userInfo.id, !.emailVerified = TRUE,
                                          !.username = userInfo.name]
             updated == Update(us, user.id, updateData)
         IN  IF updated.err # NoErr
             THEN SvcResult(us, NoToken, NoUser, ErrInternalServer, "", 3, 0, 0)
             ELSE SvcResult(updated.users, GenerateJWT(updated.user, t),
                            updated.user, NoErr, "", 3, 0, 1)
    ELSE SvcResult(us, GenerateJWT(user, t), user, NoErr, "", 2, 0, 0)

\* HandleGoogleCallback, the user found by e-mail: conflict, or link and log in
LinkOrConflict(us, user, userInfo, t) ==
    IF user.googleID # Null /\ user.googleID # userInfo.id
    THEN SvcResult(us, NoToken, NoUser, ErrConflict,
                   "email already linked to a different Google account", 2, 0, 0)
    ELSE IF user.googleID = Null
    THEN LET updateData == [NoUser EXCEPT !.googleID = userInfo.id, !.emailVerified = TRUE]
             updated == Update(us, user.id, updateData)
         IN  IF updated.err # NoErr
             THEN SvcResult(us, NoToken, NoUser, ErrInternalServer, "", 3, 0, 0)
             ELSE SvcResult(updated.users, GenerateJWT(updated.user, t),
                            updated.user, NoErr, "", 3, 0, 1)
    ELSE SvcResult(us, GenerateJWT(user, t), user, NoErr, "", 2, 0, 0)

\* a slip: the new user is left with EmailVerified at its zero value
CreateFromGoogle_Unverified(us, userInfo, t, id) ==
    LET newUser == [NoUser EXCEPT !.username = userInfo.name,
                                  !.email = userInfo.email,
                                  !.googleID = userInfo.id]
        created == Create(us, newUser, id)
    IN  IF created.err # NoErr
        THEN SvcResult(us, NoToken, NoUser, created.err, "", 2, 0, 0)
        ELSE SvcResult(created.users, GenerateJWT(created.user, t),
                       created.user, NoErr, "", 2, 1, 0)

\* HandleGoogleCallback, no user found: a new user from the profile
CreateFromGoogle(us, userInfo, t, id) ==
    LET newUser == [NoUser EXCEPT !.username = userInfo.name,
                                  !.email = userInfo.email,
                                  !.passwordHash = "",
                                  !.emailVerified = TRUE,
                                  !.googleID = userInfo.id]
        created == Create(us, newUser, id)
    IN  IF created.err = ErrConflict
        THEN SvcResult(us, NoToken, NoUser, ErrConflict,
                       "failed to create user, potential conflict", 2, 0, 0)
        ELSE IF created.err # NoErr
        THEN SvcResult(us, NoToken, NoUser, ErrInternalServer, "", 2, 0, 0)
        ELSE SvcResult(created.users, GenerateJWT(created.user, t),
                       created.user, NoErr, "", 2, 1, 0)

\* a slip: the user is looked up by e-mail before the Google ID
ResolveGoogleUser_EmailFirst(us, userInfo, t, id) ==
    LET byGoogle == GetByGoogleID(us, userInfo.id)
        byEmail == GetByEmail(us, userInfo.email)
    IN  IF byEmail # NoUser /\ byEmail.googleID \in {Null, userInfo.id}
        THEN LinkOrConflict(us, byEmail, userInfo, t)
        ELSE IF byGoogle # NoUser
        THEN SvcResult(us, GenerateJWT(byGoogle, t), byGoogle, NoErr, "", 1, 0, 0)
        ELSE IF byEmail # NoUser THEN LinkOrConflict(us, byEmail, userInfo, t)
        ELSE CreateFromGoogle(us, userInfo, t, id)

\* HandleGoogleCallback, from the lookup by Google ID on
ResolveGoogleUser(us, userInfo, t, id) ==
    LET byGoogle == GetByGoogleID(us, userInfo.id)
        byEmail == GetByEmail(us, userInfo.email)
    IN  IF byGoogle # NoUser
        THEN SvcResult(us, GenerateJWT(byGoogle, t), byGoogle, NoErr, "", 1, 0, 0)
        ELSE IF byEmail # NoUser THEN LinkOrConflict(us, byEmail, userInfo, t)
        ELSE CreateFromGoogle(us, userInfo, t, id)

\* a slip: the verified_email flag of the profile is not looked at
HandleGoogleCallback_TrustUnverified(us, outcome, t, id) ==
    IF outcome.kind # "profile"
    THEN SvcResult(us, NoToken, NoUser, ErrUnauthorized, "google auth exchange failed", 0, 0, 0)
    ELSE ResolveGoogleUser(us, outcome.profile, t, id)

HandleGoogleCallback(us, outcome, t, id) ==
    IF outcome.kind = "exchange_failed"
    THEN SvcResult(us, NoToken, NoUser, ErrUnauthorized, "google auth exchange failed", 0, 0, 0)
    ELSE IF outcome.kind = "userinfo_failed"
    THEN SvcResult(us, NoToken, NoUser, ErrUnauthorized, "failed to get user info from google", 0, 0, 0)
    ELSE IF ~outcome.profile.verifiedEmail
    THEN SvcResult(us, NoToken, NoUser, ErrUnauthorized, "google email not verified", 0, 0, 0)
    ELSE ResolveGoogleUser(us, outcome.profile, t, id)

----------------------------------------------------------------------------
(* Records of the state protector runs *)

NoSign == [nonce |-> <<>>, key |-> "", at |-> 0, token |-> <<>>]

NoVerify == [token |-> <<>>, key |-> "", at |-> 0, nonce |-> <<>>, err |-> NoErr, done |-> FALSE]

----------------------------------------------------------------------------
(* OAuth handlers: ApiHandler.InitiateGoogleLogin, ApiHandler.HandleGoogleCallback *)

\* cfg.OAuth.Google.StateSecret
StateSecret == Keys[1]

\* the state secrets of the configurations that the server is started
\* with: none, and the one of the deployment
ConfigSecrets == {"", StateSecret}

\* LoadConfig: an error when the configuration cannot be read or
\* unmarshalled; an empty state secret is logged as a warning and returned
LoadConfig(readOk, stateSecret) ==
    IF ~readOk THEN [err |-> "config error", warned |-> FALSE, stateSecret |-> ""]
    ELSE [err |-> NoErr, warned |-> stateSecret = "", stateSecret |-> stateSecret]

\* main: exits when LoadConfig returns an error, else serves with the
\* configuration it returned
Main(readOk, stateSecret) ==
    \E c \in {LoadConfig(readOk, stateSecret)} :
        cfg' = [running |-> c.err = NoErr, stateSecret |-> c.stateSecret]

\* the panic of the state protector
PanicEmptyKey == "OAuth state signing secret cannot be empty"

\* middleware.Recoverer answers a request whose handler panicked; what the
\* handler wrote to the header before stays
Panicked(req) == [req EXCEPT !.status = 500, !.msg = PanicEmptyKey]

NoCreds == [username |-> "", email |-> "", password |-> ""]

NoOutcome == [kind |-> "", profile |-> NoProfile]

\* an Authorization header, split at the spaces: n parts, of which scheme is
\* the first and token the second; no header is one empty part
NoHeader == [n |-> 1, scheme |-> "", token |-> NoToken]

\* the session cookie (cfg.JWT.CookieName) of a request
NoSessionCookie == [has |-> FALSE, value |-> NoToken]

\* a request and its response.  Request: hasCookie and cookie (the
\* oauth_state cookie), stateParam and code (the query), creds (a signup or
\* login body), presented (a session token), outcome (what the identity
\* provider answered).  Response: svc (the service was called), err and msg,
\* token, user, the numbers of store reads, inserts and updates made,
\* redirect (the Location header), setState (the oauth_state cookie was
\* set: its value, or cleared) and setSession (the session cookie).
\* For AuthMiddleware: path, header and sessionCookie of the request,
\* status (0: none written), next (the downstream handler was invoked) and
\* ctxUserID (the user id put in the request context, 0: none).
NoLast ==
    [op |-> "none", at |-> 0,
     hasCookie |-> FALSE, cookie |-> <<>>, stateParam |-> <<>>, code |-> "",
     creds |-> NoCreds, presented |-> NoToken, fresh |-> FALSE, outcome |-> NoOutcome,
     svc |-> FALSE, err |-> NoErr, msg |-> "", token |-> NoToken, user |-> NoUser,
     reads |-> 0, creates |-> 0, updates |-> 0,
     redirect |-> "", setState |-> "", stateValue |-> <<>>, setSession |-> NoToken,
     path |-> "", header |-> NoHeader, sessionCookie |-> NoSessionCookie,
     status |-> 0, next |-> FALSE, ctxUserID |-> 0, replayed |-> FALSE,
     sessionCleared |-> FALSE]

WithResult(l, r) ==
    [l EXCEPT !.err = r.err, !.msg = r.msg, !.token = r.token, !.user = r.user,
              !.reads = r.reads, !.creates = r.creates, !.updates = r.updates]

InitiateGoogleLogin(state, t) ==
    [NoLast EXCEPT !.op = "initiate", !.at = t,
                   !.setState = "set", !.stateValue = SignState(state, StateSecret, t),
                   !.redirect = "google"]

\* a slip: the response of the logout leaves the session cookie in place
LogoutUser_KeepCookie(t) ==
    [NoLast EXCEPT !.op = "logout", !.at = t, !.status = 204]

\* LogoutUser: a Set-Cookie that empties and expires the session cookie,
\* and status 204; the handler calls no service
LogoutUser(t) ==
    [NoLast EXCEPT !.op = "logout", !.at = t, !.status = 204, !.sessionCleared = TRUE]

\* a slip: the state parameter is required, and not compared with the nonce
CallbackEarlyReturn_NoCompare(req, t) ==
    LET v == VerifyAndExtractState(req.cookie, StateSecret, t)
    IN  IF ~req.hasCookie
        THEN [req EXCEPT !.redirect = "/login?error=state_missing"]
        ELSE IF v.err # NoErr
        THEN [req EXCEPT !.setState = "cleared", !.redirect = "/login?error=state_invalid"]
        ELSE IF req.stateParam = <<>>
        THEN [req EXCEPT !.setState = "cleared", !.redirect = "/login?error=state_mismatch"]
        ELSE IF req.code = ""
        THEN [req EXCEPT !.setState = "cleared", !.redirect = "/login?error=missing_code"]
        ELSE NoLast

\* a slip: the state cookie is cleared only once its token has verified
CallbackEarlyReturn_ClearLate(req, t) ==
    LET v == VerifyAndExtractState(req.cookie, StateSecret, t)
    IN  IF ~req.hasCookie
        THEN [req EXCEPT !.redirect = "/login?error=state_missing"]
        ELSE IF v.err # NoErr
        THEN [req EXCEPT !.redirect = IF v.err = ErrStateExpired
                                      THEN "/login?error=state_expired"
                                      ELSE "/login?error=state_invalid"]
        ELSE IF req.stateParam = <<>> \/ req.stateParam # v.nonce
        THEN [req EXCEPT !.setState = "cleared", !.redirect = "/login?error=state_mismatch"]
        ELSE IF req.code = ""
        THEN [req EXCEPT !.setState = "cleared", !.redirect = "/login?error=missing_code"]
        ELSE NoLast

\* the handler up to the call of the service: the response when it
\* returns early, NoLast when it goes on to call the service
CallbackEarlyReturn(req, t) ==
    LET v == VerifyAndExtractState(req.cookie, StateSecret, t)
    IN  IF ~req.hasCookie
        THEN [req EXCEPT !.redirect = "/login?error=state_missing"]
        ELSE IF v.err # NoErr
        THEN [req EXCEPT !.setState = "cleared",
                         !.redirect = IF v.err = ErrStateExpired
                                      THEN "/login?error=state_expired"
                                      ELSE "/login?error=state_invalid"]
        ELSE IF req.stateParam = <<>> \/ req.stateParam # v.nonce
        THEN [req EXCEPT !.setState = "cleared", !.redirect = "/login?error=state_mismatch"]
        ELSE IF req.code = ""
        THEN [req EXCEPT !.setState = "cleared", !.redirect = "/login?error=missing_code"]
        ELSE NoLast

\* SendJSONError: the status code of the response for the error err
HttpStatus(err, defaultStatusCode) ==
    CASE err = ErrNotFound -> 404
      [] err = ErrUnauthorized -> 401
      [] err = ErrConflict -> 409
      [] err = ErrValidation -> 400
      [] err = ErrInternalServer -> 500
      [] OTHER -> IF defaultStatusCode < 500 THEN 500 ELSE defaultStatusCode

\* SignupUserApi: the status code of the response
SignupStatus(err) == IF err # NoErr THEN HttpStatus(err, 500) ELSE 201

\* the handler from the call of the service on
CallbackAfterService(req, r) ==
    LET resp == WithResult([req EXCEPT !.svc = TRUE, !.setState = "cleared"], r)
    IN  IF r.err # NoErr
        THEN [resp EXCEPT !.redirect = IF r.err = ErrConflict
                                       THEN "/login?error=auth_conflict"
                                       ELSE "/login?error=auth_failed"]
        ELSE [resp EXCEPT !.setSession = r.token, !.redirect = "/oauth/callback#access_token"]

----------------------------------------------------------------------------
(* AuthMiddleware: internal/api/middleware.go *)

publicPaths == {"/auth/signup", "/auth/login", "/auth/google/login", "/auth/google/callback"}

\* strings.ToLower, on the schemes that requests carry
ToLower(scheme) ==
    CASE scheme \in {"Bearer", "BEARER", "bearer"} -> "bearer"
      [] scheme = "Basic" -> "basic"
      [] OTHER -> scheme

\* a slip: the session cookie is looked at before the header
extractToken_CookieFirst(header, sessionCookie) ==
    IF sessionCookie.has THEN sessionCookie.value
    ELSE IF header.n = 2 /\ ToLower(header.scheme) = "bearer" THEN header.token
    ELSE NoToken

\* the token of the request ("" is NoToken): the second part of a
\* two-part Authorization header with scheme bearer, else the value of the
\* session cookie, else ""
extractToken(header, sessionCookie) ==
    IF header.n = 2 /\ ToLower(header.scheme) = "bearer" THEN header.token
    ELSE IF sessionCookie.has THEN sessionCookie.value
    ELSE NoToken

MwResult(next, status, ctxUserID) == [next |-> next, status |-> status, ctxUserID |-> ctxUserID]

\* a slip: a request without a token is passed on unauthenticated
AuthMiddleware_PassAnonymous(us, path, header, sessionCookie, t) ==
    LET tokenString == extractToken(header, sessionCookie)
        claims == ValidateJWT(us, tokenString, t)
    IN  IF path \in publicPaths \/ tokenString = NoToken THEN MwResult(TRUE, 0, 0)
        ELSE IF claims.err # NoErr \/ claims.user.id = 0 THEN MwResult(FALSE, 401, 0)
        ELSE MwResult(TRUE, 0, claims.user.id)

\* the middleware for a request with the relative path path: whether it
\* invokes the downstream handler, the status it writes itself, and the
\* user id it puts in the context
AuthMiddleware(us, path, header, sessionCookie, t) ==
    LET tokenString == extractToken(header, sessionCookie)
        claims == ValidateJWT(us, tokenString, t)
    IN  IF path \in publicPaths THEN MwResult(TRUE, 0, 0)
        ELSE IF tokenString = NoToken THEN MwResult(FALSE, HttpStatus(ErrUnauthorized, 401), 0)
        ELSE IF claims.err # NoErr THEN MwResult(FALSE, HttpStatus(ErrUnauthorized, 401), 0)
        ELSE IF claims.user.id = 0 THEN MwResult(FALSE, HttpStatus(ErrUnauthorized, 401), 0)
        ELSE MwResult(TRUE, 0, claims.user.id)

----------------------------------------------------------------------------
(* The requests *)

SignupUsernames == {"al", "bob"}

SignupEmails == ValidEmails \cup {"not-an-email"}

SignupPasswords == {"short", "secret1"}

LoginPasswords == {"", "secret1", "secret2"}

\* the instants at which the state cookies of the requests were signed:
\* now, and more than ten minutes ago
CookieTimes(t) == {t, t - 601 * TicksPerSec}

\* the instants of the token service: around the expiry of a session token
\* issued at the start
JwtTimePoints ==
    {StartTime, StartTime + 1} \cup
    {StartTime + (JWTExpiryMinutes * 60 + d) * TicksPerSec : d \in {-1, 0, 1}}

\* the oauth_state cookies a request can carry: none, the ones
\* InitiateGoogleLogin set now or more than ten minutes ago, a token signed
\* with another key, and a value of two fields
StateCookies(t) ==
    {[has |-> TRUE, value |-> SignState(n, StateSecret, s)] : n \in Nonces, s \in CookieTimes(t)}
        \cup {[has |-> TRUE, value |-> SignState(n, Keys[2], t)] : n \in Nonces}
        \cup {[has |-> TRUE, value |-> <<"a", StateSeparator, "1">>],
              [has |-> FALSE, value |-> <<>>]}

\* the session tokens a request can carry: for each user id and instant up
\* to now, the token GenerateJWT returns, and tokens that differ from it in
\* the header algorithm, in the signing key, or in a lifetime of -1 minute
SessionTokens(t) ==
    {[alg |-> a, uid |-> u, sub |-> u, iat |-> Unix(s),
      exp |-> Unix(s + m * 60 * TicksPerSec), key |-> k] :
        a \in Algs, u \in 1..MaxUsers, s \in {x \in JwtTimePoints : x <= t},
        m \in {JWTExpiryMinutes, -1}, k \in {JWTSecret, "other-secret"}}
        \cup {NoToken}

\* the callback requests that the server handles at the same time, each in
\* its own goroutine; a request is answered once (pc "done")
Procs == {"r1", "r2"}

\* a callback in flight: pc is the store operation it makes next ("email":
\* GetByEmail, "link": Update, "create": Create), userInfo the profile it
\* got, user the row that GetByEmail returned to it.  A signup in flight:
\* pc is "lookup" (the GetByEmail after a rejected insert), user the row it
\* tried to insert, and conflictOn the constraint that the error of the
\* database named, which the repository drops
NoFlight == [pc |-> "idle", userInfo |-> NoProfile, user |-> NoUser, conflictOn |-> ""]

\* the goroutines that call the tag repository; a caller that got its
\* answer may call again
TagCallers == {"g1", "g2"}

\* the names a tag is created with or renamed to
TagNames == {"work", "home"}

\* no tag: the row is absent, the key is not in the cache, a nil *domain.Tag
NoTag == ""

\* a caller outside a call; of a call: the method, how far it got, the tag
\* it holds (the row it read, or the update data) and the error it returned
NoTagCall == [op |-> "", pc |-> "idle", tag |-> NoTag, err |-> ""]

\* the tokens the frontend is handed
StoreTokens == {"tok-a", "tok-b"}

\* the user object that comes with a token
StoreUsers == {"alice"}

\* the initial state of the auth store; Init is the store of a page loaded
\* over an empty localStorage: nothing to rehydrate, setHydrated has run
InitialStore == [user |-> Null, token |-> Null, isAuthenticated |-> FALSE, hydrated |-> FALSE]

Init ==
    /\ tagRow = [created |-> FALSE, name |-> NoTag]
    /\ tagCache = NoTag
    /\ tagCalls = [c \in TagCallers |-> NoTagCall]
    /\ store = [InitialStore EXCEPT !.hydrated = TRUE]
    /\ localStorage = [token |-> Null, auth |-> [InitialStore EXCEPT !.hydrated = TRUE]]
    /\ validations = {}
    /\ loggedOut = FALSE
    /\ now = StartTime
    /\ sgn = NoSign
    /\ signedState = <<>>
    /\ alteredAt = 0
    /\ sv = NoVerify
    /\ users = {}
    /\ nextId = 1
    /\ last = NoLast
    /\ inflight = [p \in Procs |-> NoFlight]
    /\ cfg = [running |-> TRUE, stateSecret |-> StateSecret]

\* the service result r is stored; an insert takes the next id
Commit(r) ==
    /\ r.creates = 0 \/ nextId <= MaxUsers
    /\ users' = r.users
    /\ nextId' = nextId + r.creates

DoSignup ==
    /\ \E un \in SignupUsernames, em \in SignupEmails, pw \in SignupPasswords :
        LET creds == [username |-> un, email |-> em, password |-> pw]
        IN  \E r \in {Signup(users, creds, nextId)} :
            /\ Commit(r)
            /\ last' = WithResult([NoLast EXCEPT !.op = "signup", !.at = now,
                                                 !.creds = creds, !.svc = TRUE], r)
    /\ UNCHANGED <<now, stateVars, inflight, cfg, tagVars, storeVars>>

DoLogin ==
    /\ \E em \in SignupEmails, pw \in LoginPasswords :
        LET creds == [username |-> "", email |-> em, password |-> pw]
        IN  \E r \in {Login(users, creds, now)} :
            last' = [WithResult([NoLast EXCEPT !.op = "login", !.at = now,
                                               !.creds = creds, !.svc = TRUE], r)
                        EXCEPT !.setSession = r.token]
    /\ UNCHANGED <<now, users, nextId, stateVars, inflight, cfg, tagVars, storeVars>>

DoInitiateGoogleLogin ==
    /\ \E n \in Nonces : last' = InitiateGoogleLogin(n, now)
    /\ UNCHANGED <<now, users, nextId, stateVars, inflight, cfg, tagVars, storeVars>>

DoHandleGoogleCallback ==
    /\ \E ck \in StateCookies(now), sp \in Nonces \cup {<<>>}, cd \in {"", "code"} :
        LET req == [NoLast EXCEPT !.op = "callback", !.at = now, !.hasCookie = ck.has,
                                  !.cookie = ck.value,
                                  !.stateParam = sp, !.code = cd]
        IN  \E early \in {CallbackEarlyReturn(req, now)} :
                IF early # NoLast
                THEN last' = early /\ UNCHANGED <<users, nextId>>
                ELSE \E outcome \in ProviderOutcomes :
                        \E r \in {HandleGoogleCallback(users, outcome, now, nextId)} :
                            /\ Commit(r)
                            /\ last' = CallbackAfterService([req EXCEPT !.outcome = outcome], r)
    /\ UNCHANGED <<now, stateVars, inflight, cfg, tagVars, storeVars>>

\* the process is started (again) with a configuration
DoLoadConfig ==
    /\ \E readOk \in BOOLEAN, stateSecret \in ConfigSecrets : Main(readOk, stateSecret)
    /\ last' = [NoLast EXCEPT !.op = "startup", !.at = now]
    /\ UNCHANGED <<now, users, nextId, stateVars, inflight, tagVars, storeVars>>

\* InitiateGoogleLogin of the running server, with the state secret that
\* it loaded
DoStartedInitiate ==
    /\ cfg.running
    /\ \E n \in Nonces :
        last' = IF EmptyKeyPanic(cfg.stateSecret)
                THEN Panicked([NoLast EXCEPT !.op = "initiate", !.at = now])
                ELSE InitiateGoogleLogin(n, now)
    /\ UNCHANGED <<now, users, nextId, stateVars, inflight, cfg, tagVars, storeVars>>

\* HandleGoogleCallback of the running server, with the state secret that
\* it loaded: with an empty one, a request with a state cookie reaches
\* VerifyAndExtractState after the cookie was cleared, and panics there
DoStartedCallback ==
    /\ cfg.running
    /\ IF EmptyKeyPanic(cfg.stateSecret)
       THEN /\ \E ck \in StateCookies(now), sp \in Nonces \cup {<<>>}, cd \in {"", "code"} :
                LET req == [NoLast EXCEPT !.op = "callback", !.at = now,
                                          !.hasCookie = ck.has, !.cookie = ck.value,
                                          !.stateParam = sp, !.code = cd]
                IN  last' = IF ~req.hasCookie
                            THEN [req EXCEPT !.redirect = "/login?error=state_missing"]
                            ELSE Panicked([req EXCEPT !.setState = "cleared"])
            /\ UNCHANGED <<now, users, nextId, stateVars, inflight, cfg, tagVars, storeVars>>
       ELSE DoHandleGoogleCallback

\* the server from its start on, with the OAuth handlers
NextStartup == DoLoadConfig \/ DoStartedInitiate \/ DoStartedCallback

SpecStartup == Init /\ [][NextStartup]_vars

\* a request presents a session token: one of SessionTokens, or the one the
\* response before it returned
DoValidateJWT ==
    /\ \E tok \in SessionTokens(now) \cup {last.token} :
        \E r \in {ValidateJWT(users, tok, now)} :
            last' = [NoLast EXCEPT !.op = "validate", !.at = now, !.presented = tok,
                                   !.fresh = (last.token # NoToken /\ tok = last.token),
                                   !.svc = TRUE, !.err = r.err, !.msg = r.msg, !.user = r.user]
    /\ UNCHANGED <<now, users, nextId, stateVars, inflight, cfg, tagVars, storeVars>>

TickJwt ==
    /\ \E t \in JwtTimePoints : t > now /\ now' = t
    /\ last' = NoLast
    /\ UNCHANGED <<users, nextId, stateVars, inflight, cfg, tagVars, storeVars>>

\* the account resolver behind its handlers
Next == DoSignup \/ DoLogin \/ DoInitiateGoogleLogin \/ DoHandleGoogleCallback

Spec == Init /\ [][Next]_vars

\* a callback request that has passed the state check of the handler
RaceRequest(outcome) ==
    [NoLast EXCEPT !.op = "callback", !.at = now, !.hasCookie = TRUE,
                   !.cookie = SignState(<<"a">>, StateSecret, now),
                   !.stateParam = <<"a">>, !.code = "code", !.outcome = outcome]

\* HandleGoogleCallback for a request that carries the state cookie that
\* InitiateGoogleLogin set, the matching state parameter and a code
DoCallbackWithState ==
    /\ CallbackEarlyReturn(RaceRequest(NoOutcome), now) = NoLast
    /\ \E outcome \in ProviderOutcomes :
        \E r \in {HandleGoogleCallback(users, outcome, now, nextId)} :
            /\ Commit(r)
            /\ last' = CallbackAfterService(RaceRequest(outcome), r)
    /\ UNCHANGED <<now, stateVars, inflight, cfg, tagVars, storeVars>>

\* a client sends the callback request served last once more, with the
\* same state cookie, state parameter and code, although the response
\* cleared the cookie; replayed: the state check of the first one passed
DoReplayCallback ==
    /\ last.op = "callback"
    /\ LET req == [NoLast EXCEPT !.op = "callback", !.at = now,
                                 !.hasCookie = last.hasCookie, !.cookie = last.cookie,
                                 !.stateParam = last.stateParam, !.code = last.code,
                                 !.replayed = last.svc]
       IN  \E early \in {CallbackEarlyReturn(req, now)} :
               IF early # NoLast
               THEN last' = early /\ UNCHANGED <<users, nextId>>
               ELSE \E outcome \in ProviderOutcomes :
                       \E r \in {HandleGoogleCallback(users, outcome, now, nextId)} :
                           /\ Commit(r)
                           /\ last' = CallbackAfterService([req EXCEPT !.outcome = outcome], r)
    /\ UNCHANGED <<now, stateVars, inflight, cfg, tagVars, storeVars>>

\* the usernames of the bodies of PATCH /users/me: none, too short, valid
UpdateUsernames == {Null, "al", "eve"}

\* UpdateCurrentUser, for the user id that AuthMiddleware put in the context
DoUpdateUser ==
    /\ \E userID \in {u.id : u \in users}, un \in UpdateUsernames :
        \E r \in {UpdateUser(users, userID, un)} :
            /\ Commit(r)
            /\ last' = WithResult([NoLast EXCEPT !.op = "update", !.at = now,
                                                 !.creds = [NoCreds EXCEPT !.username = un],
                                                 !.svc = TRUE], r)
    /\ UNCHANGED <<now, stateVars, inflight, cfg, tagVars, storeVars>>

\* the operations that write users, and Login, behind their handlers
NextUser == DoSignup \/ DoLogin \/ DoCallbackWithState \/ DoUpdateUser

SpecUser == Init /\ [][NextUser]_vars

\* the tokens that requests to protected paths carry: for each user id the
\* token GenerateJWT returned at the start, tokens that differ from it in
\* the header algorithm, the signing key or a lifetime of -1 minute, the
\* token of the response before, and the empty string
MwTokens ==
    {[alg |-> a, uid |-> u, sub |-> u, iat |-> Unix(StartTime),
      exp |-> Unix(StartTime + m * 60 * TicksPerSec), key |-> k] :
        a \in {"HS256", "RS256"}, u \in 1..MaxUsers,
        m \in {JWTExpiryMinutes, -1}, k \in {JWTSecret, "other-secret"}}
        \cup {last.token, NoToken}

MwHeaders ==
    {NoHeader, [n |-> 3, scheme |-> "Bearer", token |-> last.token]}
        \cup {[n |-> 2, scheme |-> s, token |-> tok] :
                  s \in {"Bearer", "bearer", "Basic"}, tok \in MwTokens}

MwCookies == {NoSessionCookie} \cup {[has |-> TRUE, value |-> tok] : tok \in MwTokens}

\* the bearer headers of the requests that carry any cookie as well: with
\* the token of the response before, and with the tokens of the first user
\* signed with the configured secret and with another key
MwBearerHeaders ==
    {[n |-> 2, scheme |-> "Bearer", token |-> tok] :
        tok \in {last.token} \cup
                {[alg |-> "HS256", uid |-> 1, sub |-> 1, iat |-> Unix(StartTime),
                  exp |-> Unix(StartTime + JWTExpiryMinutes * 60 * TicksPerSec),
                  key |-> k] : k \in {JWTSecret, "other-secret"}}}

\* the requests: any header with no cookie or the cookie of the response
\* before, any cookie with no header or a header of another scheme, and
\* any cookie with one of MwBearerHeaders
MwRequests ==
    {[path |-> "/users/me", header |-> h, sessionCookie |-> c] :
        h \in MwHeaders, c \in {NoSessionCookie, [has |-> TRUE, value |-> last.token]}}
    \cup {[path |-> "/users/me", header |-> h, sessionCookie |-> c] :
        h \in {NoHeader, [n |-> 2, scheme |-> "Basic", token |-> last.token]}
                \cup MwBearerHeaders,
        c \in MwCookies}
    \cup {[path |-> "/auth/login", header |-> NoHeader, sessionCookie |-> c] :
        c \in {NoSessionCookie, [has |-> TRUE, value |-> last.token]}}

DoAuthMiddleware ==
    /\ \E req \in MwRequests :
        \E r \in {AuthMiddleware(users, req.path, req.header, req.sessionCookie, now)} :
            last' = [NoLast EXCEPT !.op = "middleware", !.at = now,
                                   !.path = req.path, !.header = req.header,
                                   !.sessionCookie = req.sessionCookie,
                                   !.next = r.next, !.status = r.status,
                                   !.ctxUserID = r.ctxUserID]
    /\ UNCHANGED <<now, users, nextId, stateVars, inflight, cfg, tagVars, storeVars>>

\* the middleware in front of the protected handlers, with the accounts
\* that Signup creates and the tokens that Login returns
NextAuth == DoSignup \/ DoLogin \/ DoAuthMiddleware \/ TickJwt

SpecAuth == Init /\ [][NextAuth]_vars

\* pgxUserRepository.Delete for any user id; the tokens issued for the
\* user are values that requests go on presenting
DoDeleteUser ==
    /\ \E id \in 1..MaxUsers :
        /\ users' = Delete(users, id)
        /\ last' = [NoLast EXCEPT !.op = "delete", !.at = now, !.ctxUserID = id]
    /\ UNCHANGED <<now, nextId, stateVars, inflight, cfg, tagVars, storeVars>>

\* the token service and the middleware, with users created and deleted
NextDelete == DoSignup \/ DoLogin \/ DoDeleteUser \/ DoValidateJWT \/ DoAuthMiddleware

SpecDelete == Init /\ [][NextDelete]_vars

DoLogoutUser ==
    /\ last' = LogoutUser(now)
    /\ UNCHANGED <<now, users, nextId, stateVars, inflight, cfg, tagVars, storeVars>>

\* the token service with logins and logouts
NextLogout == DoSignup \/ DoLogin \/ DoLogoutUser \/ DoValidateJWT \/ TickJwt

SpecLogout == Init /\ [][NextLogout]_vars

\* the token service, with the accounts that Signup creates
NextJWT == DoSignup \/ DoLogin \/ DoValidateJWT \/ TickJwt

SpecJWT == Init /\ [][NextJWT]_vars

----------------------------------------------------------------------------
(* Concurrent OAuth callbacks: authService.HandleGoogleCallback one store  *)
(* operation at a time, each operation atomic in the database.  Signup is  *)
(* one step: its only operation before the response is chosen is the       *)
(* INSERT.                                                                 *)

\* the service returns r to the handler of request p, which responds
RaceRespond(p, r) ==
    /\ Commit(r)
    /\ last' = CallbackAfterService(RaceRequest([kind |-> "profile",
                                                  profile |-> inflight[p].userInfo]), r)
    /\ inflight' = [inflight EXCEPT ![p] = [NoFlight EXCEPT !.pc = "done"]]

\* ExchangeCode, FetchUserInfo, the verified_email check and GetByGoogleID:
\* the service returns, or goes on to GetByEmail
RaceGetByGoogleID ==
    /\ \E p \in Procs, outcome \in ProviderOutcomes :
        /\ inflight[p].pc = "idle"
        /\ IF /\ outcome.kind = "profile" /\ outcome.profile.verifiedEmail
              /\ GetByGoogleID(users, outcome.profile.id) = NoUser
           THEN /\ inflight' = [inflight EXCEPT ![p] = [pc |-> "email",
                                                         userInfo |-> outcome.profile,
                                                         user |-> NoUser,
                                                         conflictOn |-> ""]]
                /\ UNCHANGED <<users, nextId, last>>
           ELSE \E r \in {HandleGoogleCallback(users, outcome, now, nextId)} :
                    /\ Commit(r)
                    /\ last' = CallbackAfterService(RaceRequest(outcome), r)
                    /\ inflight' = [inflight EXCEPT ![p] = [NoFlight EXCEPT !.pc = "done"]]
    /\ UNCHANGED <<now, stateVars, cfg, tagVars, storeVars>>

\* GetByEmail: the service returns (a user bound to a Google account), or
\* goes on to Update or to Create
RaceGetByEmail ==
    /\ \E p \in Procs :
        /\ inflight[p].pc = "email"
        /\ \E user \in {GetByEmail(users, inflight[p].userInfo.email)} :
            IF user # NoUser /\ user.googleID # Null
            THEN RaceRespond(p, LinkOrConflict(users, user, inflight[p].userInfo, now))
            ELSE /\ inflight' = [inflight EXCEPT ![p].pc = IF user # NoUser THEN "link"
                                                                             ELSE "create",
                                                   ![p].user = user]
                 /\ UNCHANGED <<users, nextId, last>>
    /\ UNCHANGED <<now, stateVars, cfg, tagVars, storeVars>>

\* the Update that links the user read before, and the response
RaceLink ==
    /\ \E p \in Procs :
        /\ inflight[p].pc = "link"
        /\ RaceRespond(p, LinkOrConflict(users, inflight[p].user, inflight[p].userInfo, now))
    /\ UNCHANGED <<now, stateVars, cfg, tagVars, storeVars>>

\* the Create of the new user, and the response
RaceCreate ==
    /\ \E p \in Procs :
        /\ inflight[p].pc = "create"
        /\ RaceRespond(p, CreateFromGoogle(users, inflight[p].userInfo, now, nextId))
    /\ UNCHANGED <<now, stateVars, cfg, tagVars, storeVars>>

NextRace == DoSignup \/ RaceGetByGoogleID \/ RaceGetByEmail \/ RaceLink \/ RaceCreate

SpecRace == Init /\ [][NextRace]_vars

----------------------------------------------------------------------------
(* Concurrent signups: authService.Signup one store operation at a time *)

\* the usernames of concurrent signups: too short, and two valid ones
RaceUsernames == SignupUsernames \cup {"eve"}

\* the constraint that rejects the insert of the row u: the one on the
\* e-mail address if it is taken, else the one on the username
ViolatedConstraint(us, u) ==
    IF \E x \in us : x.email = u.email THEN "email" ELSE "username"

\* the signup request of which newUser is the row to insert
RaceSignupRequest(newUser) ==
    [NoLast EXCEPT !.op = "signup", !.at = now, !.svc = TRUE,
                   !.creds = [username |-> newUser.username, email |-> newUser.email,
                              password |-> CHOOSE pw \in SignupPasswords :
                                              BcryptHash(pw) = newUser.passwordHash]]

\* ValidateSignupInput, the hash and Create: the service returns, or, when
\* the insert was rejected for uniqueness, goes on to GetByEmail
RaceSignupCreate ==
    /\ \E p \in Procs, un \in RaceUsernames, em \in SignupEmails, pw \in SignupPasswords :
        LET creds == [username |-> un, email |-> em, password |-> pw]
            newUser == [NoUser EXCEPT !.username = un, !.email = em,
                                      !.passwordHash = BcryptHash(pw)]
        IN  /\ inflight[p].pc = "idle"
            /\ IF /\ ValidateUsername(un) /\ ValidateEmail(em) /\ ValidatePassword(pw)
                  /\ Create(users, newUser, nextId).err = ErrConflict
               THEN /\ inflight' = [inflight EXCEPT ![p] =
                                       [pc |-> "lookup", userInfo |-> NoProfile,
                                        user |-> newUser,
                                        conflictOn |-> ViolatedConstraint(users, newUser)]]
                    /\ UNCHANGED <<users, nextId, last>>
               ELSE \E r \in {Signup(users, creds, nextId)} :
                        /\ Commit(r)
                        /\ last' = WithResult([NoLast EXCEPT !.op = "signup", !.at = now,
                                                             !.creds = creds, !.svc = TRUE], r)
                        /\ inflight' = [inflight EXCEPT ![p] = [NoFlight EXCEPT !.pc = "done"]]
    /\ UNCHANGED <<now, stateVars, cfg, tagVars, storeVars>>

\* GetByEmail after the rejected insert, and the Conflict it chooses
RaceSignupLookup ==
    /\ \E p \in Procs :
        /\ inflight[p].pc = "lookup"
        /\ last' = WithResult(RaceSignupRequest(inflight[p].user),
                   IF GetByEmail(users, inflight[p].user.email) # NoUser
                   THEN SvcResult(users, NoToken, NoUser, ErrConflict, "email already exists", 1, 0, 0)
                   ELSE SvcResult(users, NoToken, NoUser, ErrConflict, "username already exists", 1, 0, 0))
        /\ inflight' = [inflight EXCEPT ![p] = [NoFlight EXCEPT !.pc = "done"]]
    /\ UNCHANGED <<now, users, nextId, stateVars, cfg, tagVars, storeVars>>

\* two concurrent signups, after any number of signups served one by one
NextSignupRace == DoSignup \/ RaceSignupCreate \/ RaceSignupLookup

SpecSignupRace == Init /\ [][NextSignupRace]_vars

----------------------------------------------------------------------------
(* The state protector on its own: a token is signed, possibly altered in *)
(* one character, and verified, while time passes.                        *)

\* a run signs one token, may alter it once, and verifies it; the clock
\* moves until the verification
TickState ==
    /\ ~sv.done
    /\ \E t \in TimePoints : t > now /\ now' = t
    /\ UNCHANGED <<sgn, signedState, alteredAt, sv, acctVars, inflight, cfg, tagVars, storeVars>>

DoSignState ==
    /\ sgn = NoSign
    /\ \E n \in Nonces, k \in Range(Keys) :
        /\ sgn' = [nonce |-> n, key |-> k, at |-> now, token |-> SignState(n, k, now)]
        /\ signedState' = SignState(n, k, now)
        /\ alteredAt' = 0
        /\ sv' = NoVerify
    /\ UNCHANGED <<now, acctVars, inflight, cfg, tagVars, storeVars>>

\* one character of the signed token is replaced by another one
Alter ==
    /\ sgn # NoSign
    /\ alteredAt = 0
    /\ ~sv.done
    /\ \E i \in 1..Len(sgn.token) :
        \E c \in Range(Alphabet) \ {sgn.token[i]} :
            /\ signedState' = [sgn.token EXCEPT ![i] = c]
            /\ alteredAt' = i
    /\ sv' = NoVerify
    /\ UNCHANGED <<now, sgn, acctVars, inflight, cfg, tagVars, storeVars>>

DoVerifyState ==
    /\ sgn # NoSign
    /\ ~sv.done
    /\ \E k \in Range(Keys) :
        LET r == VerifyAndExtractState(signedState, k, now)
        IN  sv' = [token |-> signedState, key |-> k, at |-> now,
                   nonce |-> r.nonce, err |-> r.err, done |-> TRUE]
    /\ UNCHANGED <<now, sgn, signedState, alteredAt, acctVars, inflight, cfg, tagVars, storeVars>>

NextState == TickState \/ DoSignState \/ Alter \/ DoVerifyState

SpecState == Init /\ [][NextState]_vars

\* callbacks with the state that InitiateGoogleLogin set, the same
\* requests sent again, and the clock
NextReplay == DoInitiateGoogleLogin \/ DoCallbackWithState \/ DoReplayCallback \/ TickState

SpecReplay == Init /\ [][NextReplay]_vars

----------------------------------------------------------------------------
(* Properties of the state protector *)

\* the positions of the three segments in the token SignState returned
NoncePositions == 1..Len(sgn.nonce)

TimestampPositions ==
    (Len(sgn.nonce) + 2)..(Len(sgn.nonce) + 1 + Len(Itoa(Unix(sgn.at))))

SignaturePositions ==
    (Len(sgn.nonce) + Len(Itoa(Unix(sgn.at))) + 3)..Len(sgn.token)

\* C5 as stated: a token altered in one character of its signature segment
\* fails with ErrInvalidStateMAC, a token altered in one character of its
\* nonce or timestamp segment fails, and no altered token returns a nonce.
C5_AsStated ==
    (sv.done /\ alteredAt # 0) =>
        /\ alteredAt \in SignaturePositions => sv.err = ErrInvalidStateMAC
        /\ alteredAt \in NoncePositions \cup TimestampPositions => sv.err # NoErr
        /\ sv.err # NoErr /\ sv.nonce = <<>>

\* C5 amended: a token altered in one character of its signature segment
\* fails with ErrInvalidStateMAC, except that it fails with
\* ErrInvalidStateFormat when the new character is the separator "."; a
\* token altered in one character of its nonce or timestamp segment fails;
\* no altered token returns a nonce.
C5_TamperDetected ==
    (sv.done /\ alteredAt # 0) =>
        /\ alteredAt \in SignaturePositions =>
               sv.err = IF signedState[alteredAt] = StateSeparator
                        THEN ErrInvalidStateFormat ELSE ErrInvalidStateMAC
        /\ alteredAt \in NoncePositions \cup TimestampPositions => sv.err # NoErr
        /\ sv.err # NoErr /\ sv.nonce = <<>>

\* a token altered in its signature segment was verified with its own key
\* before its window ended, and rejected for its MAC
C5_Witness ==
    /\ sv.done /\ alteredAt \in SignaturePositions
    /\ sv.key = sgn.key /\ sv.at = sgn.at
    /\ sv.err = ErrInvalidStateMAC

\* C6: a token signed at T with key K and verified with K, unaltered,
\* returns its nonce at T + 9m59s and fails with ErrStateExpired at
\* T + 10m1s.
C6_ExpiryWindow ==
    (sv.done /\ alteredAt = 0 /\ sv.key = sgn.key) =>
        /\ sv.at = sgn.at + 599 * TicksPerSec => (sv.err = NoErr /\ sv.nonce = sgn.nonce)
        /\ sv.at = sgn.at + 601 * TicksPerSec => sv.err = ErrStateExpired

\* an unaltered token was verified 9m59s after a signing that fell between
\* two whole seconds, and accepted
C6_Witness ==
    /\ sv.done /\ alteredAt = 0 /\ sv.key = sgn.key
    /\ sgn.at % TicksPerSec # 0
    /\ sv.at = sgn.at + 599 * TicksPerSec
    /\ sv.err = NoErr /\ sv.nonce = sgn.nonce

----------------------------------------------------------------------------
(* Properties of the OAuth callback *)

\* the Location headers of the error redirects
ErrorRedirects ==
    {"/login?error=" \o e : e \in {"state_missing", "state_invalid", "state_expired",
                                   "state_mismatch", "missing_code", "auth_failed",
                                   "auth_conflict"}}

\* the state cookie of the request served last was presented and accepted,
\* and the nonce in it is the non-empty state parameter of the request
StateAccepted ==
    /\ last.hasCookie
    /\ VerifyAndExtractState(last.cookie, StateSecret, last.at).err = NoErr
    /\ last.stateParam # <<>>
    /\ VerifyAndExtractState(last.cookie, StateSecret, last.at).nonce = last.stateParam

\* C1: the callback handler calls the service, and so reads or writes the
\* user store or issues a session token, only if a state cookie was
\* presented, VerifyAndExtractState accepted it and its nonce equals the
\* non-empty state parameter; otherwise it redirects to an error URL.
C1_ServiceOnlyAfterStateCheck ==
    (last.op = "callback" /\ ~StateAccepted) =>
        /\ ~last.svc
        /\ last.reads = 0 /\ last.creates = 0 /\ last.updates = 0
        /\ last.token = NoToken /\ last.setSession = NoToken
        /\ last.redirect \in ErrorRedirects

\* the service was called by the callback handler and logged a user in
C1_Witness ==
    /\ last.op = "callback" /\ StateAccepted
    /\ last.svc /\ last.err = NoErr /\ last.token # NoToken /\ last.reads > 0

\* the step is a call of the service by the callback handler, in which the
\* provider returned a profile
CallbackWithProfile == last'.op = "callback" /\ last'.svc /\ last'.outcome.kind = "profile"

NothingIssuedOrWritten ==
    /\ last'.token = NoToken /\ last'.setSession = NoToken
    /\ last'.creates = 0 /\ last'.updates = 0
    /\ users' = users

\* C7: with verifiedEmail = false the service returns Unauthorized, issues
\* no token and makes no insert or update in the user store, whatever
\* users the e-mail address or the external id of the profile match.
C7_UnverifiedEmailRejected ==
    [][(CallbackWithProfile /\ ~last'.outcome.profile.verifiedEmail) =>
           (last'.err = ErrUnauthorized /\ NothingIssuedOrWritten)]_vars

\* an unverified profile was rejected whose e-mail address is the one of a
\* user and whose external id is the one of a user
C7_Witness ==
    /\ last.op = "callback" /\ last.svc /\ last.outcome.kind = "profile"
    /\ ~last.outcome.profile.verifiedEmail
    /\ \E u \in users : u.email = last.outcome.profile.email
    /\ \E u \in users : u.googleID = last.outcome.profile.id
    /\ last.err = ErrUnauthorized

\* the branches of the resolution, for the profile p and the users us
NoUserHasExternalId(us, p) == \A u \in us : u.googleID # p.id

\* C8: when no user has the external id of the (verified) profile and the
\* user with its e-mail address has another, non-null external id, the
\* service returns Conflict, issues no token and leaves the store as it is.
C8_ConflictBranch ==
    [][(/\ CallbackWithProfile /\ last'.outcome.profile.verifiedEmail
        /\ NoUserHasExternalId(users, last'.outcome.profile)
        /\ \E u \in users : /\ u.email = last'.outcome.profile.email
                            /\ u.googleID \notin {Null, last'.outcome.profile.id})
           => (last'.err = ErrConflict /\ NothingIssuedOrWritten)]_vars

\* a callback ended in Conflict on a user whose e-mail address is bound to
\* another external id
C8_Witness ==
    /\ last.op = "callback" /\ last.svc /\ last.outcome.kind = "profile"
    /\ last.outcome.profile.verifiedEmail
    /\ NoUserHasExternalId(users, last.outcome.profile)
    /\ \E u \in users : /\ u.email = last.outcome.profile.email
                        /\ u.googleID \notin {Null, last.outcome.profile.id}
    /\ last.err = ErrConflict /\ last.token = NoToken

\* C9: when no user has the external id of the (verified) profile and the
\* user with its e-mail address has no external id, the service makes
\* exactly one update of the store, after which that user has the external
\* id of the profile and emailVerified = true, and returns a token whose
\* subject is that user.
C9_LinkBranch ==
    [][\A u \in users :
          (/\ CallbackWithProfile /\ last'.outcome.profile.verifiedEmail
           /\ NoUserHasExternalId(users, last'.outcome.profile)
           /\ u.email = last'.outcome.profile.email /\ u.googleID = Null)
          => /\ last'.err = NoErr
             /\ last'.updates = 1 /\ last'.creates = 0
             /\ Cardinality(users' \ users) = 1 /\ Cardinality(users \ users') = 1
             /\ \E w \in users' : /\ w.id = u.id
                                  /\ w.googleID = last'.outcome.profile.id
                                  /\ w.emailVerified
             /\ last'.token # NoToken
             /\ last'.token.sub = u.id /\ last'.token.uid = u.id
             /\ last'.user.id = u.id]_vars

\* a callback linked an external id to a user that has a password
C9_Witness ==
    /\ last.op = "callback" /\ last.svc /\ last.err = NoErr
    /\ last.updates = 1
    /\ \E u \in users : /\ u.id = last.token.sub
                        /\ u.passwordHash # ""
                        /\ u.googleID = last.outcome.profile.id
                        /\ u.emailVerified

\* the users of us that the profile p matches by external id or by e-mail
MatchingUsers(us, p) == {u \in us : u.googleID = p.id \/ u.email = p.email}

\* C11: when no user has the external id or the e-mail address of the
\* (verified) profile and the callback succeeds, the store gains exactly
\* one user, with an empty passwordHash, emailVerified = true and the
\* external id of the profile; no user that was there is changed, and the
\* token returned has the new user as its subject.
C11_NewUserBranch ==
    [][(/\ CallbackWithProfile /\ last'.outcome.profile.verifiedEmail
        /\ MatchingUsers(users, last'.outcome.profile) = {}
        /\ last'.err = NoErr)
           => /\ users \subseteq users'
              /\ Cardinality(users' \ users) = 1
              /\ last'.creates = 1 /\ last'.updates = 0
              /\ \A n \in users' \ users :
                    /\ n.passwordHash = ""
                    /\ n.emailVerified
                    /\ n.googleID = last'.outcome.profile.id
                    /\ n.email = last'.outcome.profile.email
                    /\ n.id \notin {u.id : u \in users}
                    /\ last'.user = n
                    /\ last'.token # NoToken
                    /\ last'.token.sub = n.id /\ last'.token.uid = n.id]_vars

\* a callback created a user next to one that was there already, and
\* returned a token for the new one
C11_Witness ==
    /\ last.op = "callback" /\ last.svc /\ last.err = NoErr
    /\ last.creates = 1
    /\ \E n, u \in users : /\ n.id # u.id
                           /\ u.id < n.id
                           /\ n.passwordHash = ""
                           /\ n.googleID = last.outcome.profile.id
                           /\ last.token.sub = n.id

\* C10: when a user has the external id of the (verified) profile, the
\* service returns a token whose subject is that user and makes no insert
\* or update in the store, whatever the e-mail address of the profile is.
C10_ReturningUser ==
    [][\A u \in users :
          (/\ CallbackWithProfile /\ last'.outcome.profile.verifiedEmail
           /\ u.googleID = last'.outcome.profile.id)
          => /\ last'.err = NoErr
             /\ last'.token # NoToken
             /\ last'.token.sub = u.id /\ last'.token.uid = u.id
             /\ last'.user = u
             /\ last'.creates = 0 /\ last'.updates = 0
             /\ users' = users]_vars

\* a returning user was logged in by a profile whose e-mail address is not
\* the stored one, but the one of another user
C10_Witness ==
    /\ last.op = "callback" /\ last.svc /\ last.err = NoErr
    /\ \E u, w \in users : /\ u.googleID = last.outcome.profile.id
                           /\ u.email # last.outcome.profile.email
                           /\ w.id # u.id /\ w.email = last.outcome.profile.email
                           /\ last.token.sub = u.id

----------------------------------------------------------------------------
(* Properties of the token service *)

\* C2 as stated: ValidateJWT rejects every token whose header algorithm is
\* not HS256, the algorithm GenerateJWT signs with, also when its signature
\* is valid for that algorithm under the configured secret.
C2_OnlyHS256Accepted ==
    (last.op = "validate" /\ last.presented # NoToken /\ last.presented.alg # "HS256")
        => (last.err # NoErr /\ last.user = NoUser)

\* C3: ValidateJWT applied to the token that GenerateJWT has just returned
\* for a user of the store succeeds and returns the user with that id.
C3_RoundTrip ==
    [][(/\ last.token # NoToken /\ last.user \in users
        /\ last'.op = "validate" /\ last'.presented = last.token)
           => (last'.err = NoErr /\ last'.user.id = last.user.id)]_vars

\* the token that a login had just returned was validated
C3_Witness ==
    /\ last.op = "validate" /\ last.fresh
    /\ last.err = NoErr /\ last.user \in users
    /\ last.user.id = last.presented.sub

\* C4: a session token of the service (HS256, signed with the configured
\* secret) whose expiresAt is in the past fails ValidateJWT as expired and
\* returns no user, whoever its subject is.
C4_ExpiredRejected ==
    (/\ last.op = "validate"
     /\ last.presented.alg = "HS256" /\ last.presented.key = JWTSecret
     /\ last.presented.exp * TicksPerSec < last.at)
        => /\ last.err = ErrUnauthorized
           /\ last.msg = "token has expired"
           /\ last.user = NoUser

\* a token issued with the configured lifetime for a user of the store was
\* rejected as expired after the clock had passed its expiresAt
C4_Witness ==
    /\ last.op = "validate"
    /\ last.presented.alg = "HS256" /\ last.presented.key = JWTSecret
    /\ last.presented.exp = last.presented.iat + JWTExpiryMinutes * 60
    /\ last.presented.exp * TicksPerSec < last.at
    /\ \E u \in users : u.id = last.presented.sub
    /\ last.msg = "token has expired"

----------------------------------------------------------------------------
(* Properties of concurrent callbacks and signups *)

\* the step is the Update of the link branch made by the callback p
LinkStep(p) == inflight[p].pc = "link" /\ inflight'[p].pc = "done"

\* the step is the Create of the new-user branch made by the callback p
CreateStep(p) == inflight[p].pc = "create" /\ inflight'[p].pc = "done"

\* the step is a Signup that passes validation and so reaches the Create
SignupInsertStep ==
    /\ last' # last /\ last'.op = "signup"
    /\ ValidateUsername(last'.creds.username)
    /\ ValidateEmail(last'.creds.email)
    /\ ValidatePassword(last'.creds.password)

\* C12 as stated: once the external id of a user is set, no step of an
\* OAuth callback changes it to another value, however the callbacks
\* interleave.
C12_ExternalIdNeverOverwritten ==
    [][\A u \in users : \A w \in users' :
          (u.googleID # Null /\ w.id = u.id) => w.googleID = u.googleID]_vars

EmailsUnique(us) == \A u, w \in us : u.email = w.email => u = w

\* an attempt to create an account for the e-mail address email has made
\* its insert in this step
InsertOutcome(email) ==
    IF \E u \in users : u.email = email
    THEN /\ last'.err = ErrConflict /\ users' = users
         /\ last'.token = NoToken /\ last'.creates = 0
    ELSE \/ /\ last'.err = NoErr /\ last'.creates = 1
            /\ users \subseteq users'
            /\ Cardinality(users' \ users) = 1
            /\ \A n \in users' \ users : n.email = email
         \/ /\ last'.err = ErrConflict /\ users' = users /\ last'.creates = 0

C14_LinkConflictIsConflict ==
    [][\A p \in Procs :
          (/\ LinkStep(p)
           /\ inflight[p].user.googleID = Null
           /\ Update(users, inflight[p].user.id,
                     [NoUser EXCEPT !.googleID = inflight[p].userInfo.id,
                                    !.emailVerified = TRUE]).err = ErrConflict)
             => last'.err = ErrConflict]_vars

----------------------------------------------------------------------------
(* Invariants of the stored users *)

\* C15: every stored user has a non-empty passwordHash or a non-null
\* external id, after any sequence of Signup, Login, OAuth callback and
\* UpdateUser.
C15_Reachable ==
    \A u \in users : u.passwordHash # "" \/ u.googleID # Null

\* UpdateUser has renamed the one of two users that has no password, and
\* the other one has a password only
C15_Witness ==
    /\ last.op = "update" /\ last.updates = 1
    /\ last.user.passwordHash = "" /\ last.user \in users
    /\ \E w \in users : w.passwordHash # "" /\ w.googleID = Null

\* C16 as stated: every stored user with a non-null external id has
\* emailVerified = true, also after a later UpdateUser.
C16_LinkedIsVerified ==
    \A u \in users : u.googleID # Null => u.emailVerified

\* C17 as stated: the username of every stored user is between 3 and 50
\* characters long.
C17_UsernameLength ==
    \A u \in users : /\ Len(u.username) >= MinUsernameLength
                     /\ Len(u.username) <= MaxUsernameLength

----------------------------------------------------------------------------
(* Properties of Login *)

\* the login request served last passed ValidateLoginInput
LoginInputValid == ValidateEmail(last.creds.email) /\ last.creds.password # ""

\* C18: Login returns a token only when a user with the e-mail address
\* exists, has a non-empty passwordHash and the password verifies against
\* it, and the subject of the token is that user; for an unknown address,
\* for an account without a password and for a wrong password it returns
\* Unauthorized and no token.
C18_LoginSafety ==
    last.op = "login" =>
        /\ last.token # NoToken =>
              \E u \in users : /\ u.email = last.creds.email
                               /\ u.passwordHash # ""
                               /\ BcryptMatches(u.passwordHash, last.creds.password)
                               /\ last.user = u
                               /\ last.token.sub = u.id /\ last.token.uid = u.id
        /\ (/\ LoginInputValid
            /\ \A u \in users :
                  u.email = last.creds.email =>
                      \/ u.passwordHash = ""
                      \/ ~BcryptMatches(u.passwordHash, last.creds.password))
              => /\ last.err = ErrUnauthorized
                 /\ last.token = NoToken /\ last.setSession = NoToken

\* a login with the address of a user that the callback created, who has
\* no password, was refused
C18_Witness ==
    /\ last.op = "login" /\ LoginInputValid
    /\ \E u \in users : /\ u.email = last.creds.email
                        /\ u.passwordHash = "" /\ u.googleID # Null
    /\ last.err = ErrUnauthorized /\ last.token = NoToken

\* what the client sees of a login: LoginUserApi responds through
\* SendJSONError with the message of the error and the status mapped from it
LoginObservable(r) ==
    [err |-> r.err, msg |-> r.msg, status |-> HttpStatus(r.err, 401), token |-> r.token]

\* C19: a failed login with a valid address and a non-empty password has
\* the same error, message and status 401 when a password user has the
\* address and the password is wrong as in the store without that user.
C19_UniformLoginFailure ==
    (last.op = "login" /\ LoginInputValid /\ last.err # NoErr) =>
        \A u \in users :
            (/\ u.email = last.creds.email /\ u.passwordHash # ""
             /\ ~BcryptMatches(u.passwordHash, last.creds.password))
                => /\ LoginObservable(last) =
                          LoginObservable(Login(users \ {u}, last.creds, last.at))
                   /\ LoginObservable(last).status = 401

\* a login with a wrong password for the address of a password user failed
C19_Witness ==
    /\ last.op = "login" /\ LoginInputValid /\ last.err # NoErr
    /\ \E u \in users : /\ u.email = last.creds.email /\ u.passwordHash # ""
                        /\ ~BcryptMatches(u.passwordHash, last.creds.password)
                        /\ Login(users \ {u}, last.creds, last.at).err = ErrUnauthorized

----------------------------------------------------------------------------
(* Properties of AuthMiddleware *)

\* the token that the request served last carries: in a bearer header of
\* two parts, else in the session cookie
PresentedToken ==
    IF last.header.n = 2 /\ last.header.scheme \in {"Bearer", "BEARER", "bearer"}
    THEN last.header.token
    ELSE IF last.sessionCookie.has THEN last.sessionCookie.value
    ELSE NoToken

\* C20: on a path that is not public, AuthMiddleware invokes the downstream
\* handler only if the request carries a token, ValidateJWT accepts it and
\* the user of its claims is in the store, and then the user id in the
\* context is the subject of the token; in every other case it answers
\* 401 and does not invoke the downstream handler.
C20_MiddlewareGate ==
    (last.op = "middleware" /\ last.path \notin publicPaths) =>
        IF /\ PresentedToken # NoToken
           /\ ValidateJWT(users, PresentedToken, last.at).err = NoErr
           /\ \E u \in users : u.id = PresentedToken.uid
        THEN /\ last.next
             /\ last.ctxUserID = PresentedToken.sub
             /\ last.ctxUserID # 0
        ELSE ~last.next /\ last.status = 401 /\ last.ctxUserID = 0

\* a request to a protected path with the token of a login in its cookie
\* and a header of another scheme reached the downstream handler
C20_Witness ==
    /\ last.op = "middleware" /\ last.path \notin publicPaths
    /\ last.header.scheme = "Basic"
    /\ last.sessionCookie.has
    /\ last.next
    /\ \E u \in users : u.id = last.ctxUserID /\ last.sessionCookie.value.sub = u.id

\* the request served last carries a well-formed bearer header: two parts,
\* the scheme bearer in any case, and a token
WellFormedBearer ==
    /\ last.header.n = 2
    /\ last.header.scheme \in {"Bearer", "BEARER", "bearer"}
    /\ last.header.token # NoToken

\* ValidateJWT accepts the token tok for the request served last, and the
\* user of its claims is in the store
Authenticates(tok) ==
    /\ tok # NoToken
    /\ ValidateJWT(users, tok, last.at).err = NoErr
    /\ \E u \in users : u.id = tok.uid

\* C21: for a request to a protected path that carries a well-formed
\* bearer header and the session cookie, the header's token alone decides:
\* if it is valid the request is authenticated as its subject whatever the
\* cookie holds, if it is invalid the request is answered 401 even when
\* the cookie holds a valid token; and a request is authenticated by the
\* token of its cookie only when it has no well-formed bearer header.
C21_HeaderPrecedence ==
    (last.op = "middleware" /\ last.path \notin publicPaths) =>
        /\ (WellFormedBearer /\ last.sessionCookie.has) =>
              IF Authenticates(last.header.token)
              THEN last.next /\ last.ctxUserID = last.header.token.sub
              ELSE ~last.next /\ last.status = 401 /\ last.ctxUserID = 0
        /\ (/\ last.next /\ last.sessionCookie.has
            /\ last.sessionCookie.value # last.header.token
            /\ last.ctxUserID = last.sessionCookie.value.sub)
              => \/ ~WellFormedBearer
                 \/ last.header.token.sub = last.sessionCookie.value.sub

\* a request whose bearer header carries a token signed with another key
\* was answered 401 although its cookie holds the valid token of a user
C21_Witness ==
    /\ last.op = "middleware" /\ last.path \notin publicPaths
    /\ WellFormedBearer /\ last.sessionCookie.has
    /\ ~Authenticates(last.header.token)
    /\ Authenticates(last.sessionCookie.value)
    /\ ~last.next /\ last.status = 401

----------------------------------------------------------------------------
(* Tokens of deleted users *)

\* tok is a session token that the service issued for a user who has been
\* deleted since: ids are given out in sequence, so a user id below nextId
\* that no stored user has was deleted; the signature of tok is valid and
\* at the instant t it has not expired
TokenOfDeletedUser(tok, t) ==
    /\ tok # NoToken
    /\ tok.alg = "HS256" /\ tok.key = JWTSecret
    /\ tok.uid = tok.sub /\ tok.uid >= 1 /\ tok.uid < nextId
    /\ tok.exp = tok.iat + JWTExpiryMinutes * 60
    /\ t < tok.exp * TicksPerSec
    /\ \A u \in users : u.id # tok.uid

\* C22: a session token issued for a user who has been deleted is rejected
\* by ValidateJWT as Unauthorized and by AuthMiddleware with 401, never as
\* Internal (500), although its signature and expiry are valid.
C22_DeletedUserUnauthorized ==
    /\ (last.op = "validate" /\ TokenOfDeletedUser(last.presented, last.at))
          => /\ last.err = ErrUnauthorized
             /\ last.user = NoUser
             /\ HttpStatus(last.err, 401) = 401
    /\ (/\ last.op = "middleware" /\ last.path \notin publicPaths
        /\ TokenOfDeletedUser(PresentedToken, last.at))
          => ~last.next /\ last.status = 401 /\ last.ctxUserID = 0

\* the token of a deleted user was presented to ValidateJWT while another
\* user is in the store
C22_Witness ==
    /\ last.op = "validate" /\ TokenOfDeletedUser(last.presented, last.at)
    /\ last.msg = "user associated with token not found"
    /\ users # {}

----------------------------------------------------------------------------
(* Start of the server *)

\* the state protector panicked while the request served last was handled
PanickedOnEmptyKey == last.op \in {"initiate", "callback"} /\ last.msg = PanicEmptyKey

\* C23 as stated: a server whose configuration has an empty state secret
\* does not run, and no request is served in which SignState or
\* VerifyAndExtractState is called with an empty key.
C23_EmptySecretFailsFast ==
    /\ EmptyKeyPanic(cfg.stateSecret) => ~cfg.running
    /\ ~PanickedOnEmptyKey

----------------------------------------------------------------------------
(* The state cookie after a callback *)

\* C24 as stated: every response of the callback clears the state cookie.
C24_EveryResponseClears ==
    last.op = "callback" => last.setState = "cleared"

\* C24, amended: every response of the callback to a request that carries
\* a state cookie clears it, on success and on every failure path (state
\* verification failure, nonce mismatch, missing code, service error); to a
\* request without a state cookie the callback answers state_missing
\* without calling the service, and sets no cookie.
C24_CarriedCookieCleared ==
    last.op = "callback" =>
        IF last.hasCookie THEN last.setState = "cleared"
        ELSE /\ last.setState = ""
             /\ last.redirect = "/login?error=state_missing"
             /\ ~last.svc /\ last.setSession = NoToken

\* the callback cleared the cookie of a request whose state token failed
\* verification
C24_Witness ==
    /\ last.op = "callback" /\ last.hasCookie
    /\ VerifyAndExtractState(last.cookie, StateSecret, last.at).err # NoErr
    /\ last.redirect \in {"/login?error=state_invalid", "/login?error=state_expired"}
    /\ last.setState = "cleared"

----------------------------------------------------------------------------
(* The field that a Conflict of Signup names *)

\* the step is the GetByEmail of the signup p after its rejected insert
SignupLookupStep(p) == inflight[p].pc = "lookup" /\ inflight'[p].pc = "done"

\* C25 as stated: a Conflict of Signup names the field whose constraint
\* rejected the insert (email if the address was taken, else username),
\* whatever other signups do between the insert and the lookup.
C25_ConflictNamesRejectingField ==
    [][\A p \in Procs :
          SignupLookupStep(p) =>
              /\ last'.err = ErrConflict
              /\ last'.msg = IF inflight[p].conflictOn = "email"
                             THEN "email already exists"
                             ELSE "username already exists"]_vars

----------------------------------------------------------------------------
(* Replay of a state token *)

\* the age of the timestamp of the state token tok at the instant t is
\* within StateExpiry
WithinExpiry(tok, t) ==
    t - SscanVal(Split(tok, StateSeparator)[2]) * TicksPerSec <= StateExpiry * TicksPerSec

\* C26: a state token that VerifyAndExtractState accepted is accepted
\* again, with the same nonce, at every later instant at which no more
\* than 10 minutes have passed since its timestamp, and is rejected as
\* expired after that; and a callback that presents again the cookie
\* value, state parameter and code of a callback that passed the state
\* check passes the state check as well, until the token expires.
C26_ReplayAccepted ==
    /\ StateAccepted =>
          \A t \in {x \in TimePoints : x >= last.at} :
              \E v \in {VerifyAndExtractState(last.cookie, StateSecret, t)} :
                  IF WithinExpiry(last.cookie, t)
                  THEN v.err = NoErr /\ v.nonce = last.stateParam
                  ELSE v.err = ErrStateExpired
    /\ (last.op = "callback" /\ last.replayed) =>
          IF WithinExpiry(last.cookie, last.at)
          THEN StateAccepted /\ last.svc
          ELSE ~last.svc /\ last.redirect = "/login?error=state_expired"

\* a callback sent again later, after the first one had passed the state
\* check and the clock had advanced, passed the state check too
C26_Witness ==
    /\ last.op = "callback" /\ last.replayed
    /\ StateAccepted /\ last.svc
    /\ last.at > StartTime
    /\ SscanVal(Split(last.cookie, StateSeparator)[2]) = Unix(StartTime)

----------------------------------------------------------------------------
(* Logout *)

\* tok is a session token of a stored user, signed with the configured
\* secret, that has not expired at the instant t
LiveToken(tok, t) ==
    /\ tok # NoToken
    /\ tok.alg = "HS256" /\ tok.key = JWTSecret
    /\ t < tok.exp * TicksPerSec
    /\ \E u \in users : u.id = tok.uid

----------------------------------------------------------------------------
(* What the link branch leaves alone *)

\* the login of the body (email, pw) succeeds against the users us
LogsIn(us, email, pw) ==
    Login(us, [username |-> "", email |-> email, password |-> pw], now).err = NoErr

-----------------------------------------------------------------------------
(* The caching tag repository: GetByID, Update and Delete of one tag,
   called by goroutines that interleave at the cache and at the database *)

\* the caller c is outside a call: it has not called, or it has its answer
TagFree(c) == tagCalls[c].pc \in {"idle", "done"}

\* the call of c moves on to pc, holding tag; at pc "done" it has returned
\* tag and err
TagCall(c, op, pc, tag, err) ==
    tagCalls' = [tagCalls EXCEPT ![c] = [op |-> op, pc |-> pc, tag |-> tag, err |-> err]]

\* Create passes through to the database: the row is inserted under a new id
TagCreate ==
    /\ ~tagRow.created
    /\ \E name \in TagNames : tagRow' = [created |-> TRUE, name |-> name]
    /\ UNCHANGED <<tagCache, tagCalls, serverVars, storeVars>>

\* GetByID, up to the cache.Get: a hit returns the cached tag, a miss goes
\* on to the database
CachingGetByID ==
    /\ \E c \in TagCallers :
        /\ TagFree(c)
        /\ IF tagCache # NoTag
           THEN TagCall(c, "get", "done", tagCache, "")
           ELSE TagCall(c, "get", "next", NoTag, "")
    /\ UNCHANGED <<tagRow, tagCache, serverVars, storeVars>>

\* GetByID after a miss: r.next.GetByID reads the row; no row is ErrNotFound
CachingGetByIDNext ==
    /\ \E c \in TagCallers :
        /\ tagCalls[c].op = "get" /\ tagCalls[c].pc = "next"
        /\ IF tagRow.name = NoTag
           THEN TagCall(c, "get", "done", NoTag, ErrNotFound)
           ELSE TagCall(c, "get", "set", tagRow.name, "")
    /\ UNCHANGED <<tagRow, tagCache, serverVars, storeVars>>

\* GetByID after the read: cache.Set stores the tag that was read, and the
\* call returns it
CachingGetByIDSet ==
    /\ \E c \in TagCallers :
        /\ tagCalls[c].op = "get" /\ tagCalls[c].pc = "set"
        /\ tagCache' = tagCalls[c].tag
        /\ TagCall(c, "get", "done", tagCalls[c].tag, "")
    /\ UNCHANGED <<tagRow, serverVars, storeVars>>

\* Update, up to the GetByID that pgxTagRepository.Update starts with: no
\* row is ErrNotFound, returned before the cache is touched
CachingUpdate ==
    /\ \E c \in TagCallers, name \in TagNames :
        /\ TagFree(c)
        /\ IF tagRow.name = NoTag
           THEN TagCall(c, "update", "done", NoTag, ErrNotFound)
           ELSE TagCall(c, "update", "write", name, "")
    /\ UNCHANGED <<tagRow, tagCache, serverVars, storeVars>>

\* Update: the UPDATE statement; on a row deleted meanwhile it fails, and
\* the call returns before the cache is touched
CachingUpdateWrite ==
    /\ \E c \in TagCallers :
        /\ tagCalls[c].op = "update" /\ tagCalls[c].pc = "write"
        /\ IF tagRow.name = NoTag
           THEN /\ TagCall(c, "update", "done", NoTag, "failed to update tag")
                /\ UNCHANGED tagRow
           ELSE /\ tagRow' = [tagRow EXCEPT !.name = tagCalls[c].tag]
                /\ TagCall(c, "update", "invalidate", tagCalls[c].tag, "")
    /\ UNCHANGED <<tagCache, serverVars, storeVars>>

\* Delete, up to r.next.Delete: the DELETE statement, no error on no row
CachingDelete ==
    /\ \E c \in TagCallers :
        /\ TagFree(c)
        /\ tagRow' = [tagRow EXCEPT !.name = NoTag]
        /\ TagCall(c, "delete", "invalidate", NoTag, "")
    /\ UNCHANGED <<tagCache, serverVars, storeVars>>

\* Update and Delete after the database: cache.Delete of the key, and the
\* call returns
CacheInvalidate ==
    /\ \E c \in TagCallers :
        /\ tagCalls[c].pc = "invalidate"
        /\ tagCache' = NoTag
        /\ TagCall(c, tagCalls[c].op, "done", tagCalls[c].tag, "")
    /\ UNCHANGED <<tagRow, serverVars, storeVars>>

\* the entry outlives its expiration (cache.Set with duration 0: the
\* default expiration) and is gone
CacheExpire ==
    /\ tagCache # NoTag
    /\ tagCache' = NoTag
    /\ UNCHANGED <<tagRow, tagCalls, serverVars, storeVars>>

NextTagCache ==
    \/ TagCreate \/ CachingGetByID \/ CachingGetByIDNext \/ CachingGetByIDSet
    \/ CachingUpdate \/ CachingUpdateWrite \/ CachingDelete
    \/ CacheInvalidate \/ CacheExpire

SpecTagCache == Init /\ [][NextTagCache]_vars

\* an Update or a Delete has changed the row and has not returned
TagWriterInFlight ==
    \E w \in TagCallers : tagCalls[w].op \in {"update", "delete"} /\ ~TagFree(w)

\* an Update or a Delete has returned without an error
TagWriteReturned ==
    \E w \in TagCallers :
        /\ tagCalls[w].op \in {"update", "delete"}
        /\ tagCalls[w].pc = "done" /\ tagCalls[w].err = ""

\* C29: once an Update or a Delete has returned and none is running, a
\* GetByID that starts and is answered (from the cache) returns the tag as
\* the row holds it, and ErrNotFound if the row is deleted, whatever
\* GetByID calls were in flight while the Update or Delete ran.
C29_GetByIDSeesReturnedWrite ==
    [][\A c \in TagCallers :
          (/\ TagWriteReturned /\ ~TagWriterInFlight
           /\ TagFree(c) /\ tagCalls'[c] # tagCalls[c]
           /\ tagCalls'[c].op = "get" /\ tagCalls'[c].pc = "done")
          => /\ tagCalls'[c].tag = tagRow.name
             /\ tagCalls'[c].err = IF tagRow.name = NoTag THEN ErrNotFound ELSE ""]_vars

-----------------------------------------------------------------------------
(* The frontend auth store: a zustand store persisted under "auth-storage",
   and the validateToken promises that initialize and rehydration start *)

\* login: set({ token, user, isAuthenticated: true })
login(st, token, user) ==
    [st EXCEPT !.token = token, !.user = user, !.isAuthenticated = TRUE]

\* logout: set({ token: null, user: null, isAuthenticated: false })
logout(st) ==
    [st EXCEPT !.token = Null, !.user = Null, !.isAuthenticated = FALSE]

\* setHydrated: set({ hydrated: true })
setHydrated(st) == [st EXCEPT !.hydrated = TRUE]

\* the callback of initialize's validateToken(token).then
initializeThen(st, token, isValid) ==
    IF isValid THEN [st EXCEPT !.token = token, !.isAuthenticated = TRUE]
               ELSE [st EXCEPT !.token = Null, !.isAuthenticated = FALSE]

\* set of a persisted store: the state is replaced and written to
\* localStorage under "auth-storage"
PersistSet(st) ==
    /\ store' = st
    /\ localStorage' = [localStorage EXCEPT !.auth = st]

\* a page calls login(token, user)
StoreLogin ==
    /\ \E token \in StoreTokens, user \in StoreUsers : PersistSet(login(store, token, user))
    /\ loggedOut' = FALSE
    /\ UNCHANGED <<validations, serverVars, tagVars>>

\* a page calls logout()
StoreLogout ==
    /\ PersistSet(logout(store))
    /\ loggedOut' = TRUE
    /\ UNCHANGED <<validations, serverVars, tagVars>>

\* a page calls updateUser(user)
StoreUpdateUser ==
    /\ \E user \in StoreUsers : PersistSet([store EXCEPT !.user = user])
    /\ UNCHANGED <<validations, loggedOut, serverVars, tagVars>>

\* something on the origin has written the localStorage key "token", which
\* initialize reads and the store never writes
StorageSetToken ==
    /\ \E token \in StoreTokens :
        /\ localStorage.token # token
        /\ localStorage' = [localStorage EXCEPT !.token = token]
    /\ UNCHANGED <<store, validations, loggedOut, serverVars, tagVars>>

\* AuthProvider's effect calls initialize(): with a token under the key
\* "token", validateToken(token) is started
StoreInitialize ==
    /\ localStorage.token # Null
    /\ validations' = validations \cup {[by |-> "initialize", token |-> localStorage.token]}
    /\ UNCHANGED <<store, localStorage, loggedOut, serverVars, tagVars>>

\* a validateToken started by initialize settles, and its then-callback runs
StoreInitializeThen ==
    /\ \E v \in validations, isValid \in BOOLEAN :
        /\ v.by = "initialize"
        /\ PersistSet(initializeThen(store, v.token, isValid))
        /\ validations' = validations \ {v}
    /\ UNCHANGED <<loggedOut, serverVars, tagVars>>

\* the page is loaded (again): the store is created and takes the state
\* persisted under "auth-storage"; the promises of the page before are
\* gone; onRehydrateStorage's callback starts validateToken of a persisted
\* token, and calls setHydrated at once if there is none
Rehydrate ==
    /\ LET st == localStorage.auth
       IN  IF st.token # Null
           THEN /\ store' = st
                /\ validations' = {[by |-> "rehydrate", token |-> st.token]}
                /\ UNCHANGED localStorage
           ELSE /\ PersistSet(setHydrated(st))
                /\ validations' = {}
    /\ UNCHANGED <<loggedOut, serverVars, tagVars>>

\* the validateToken awaited by onRehydrateStorage's callback settles:
\* logout() if the token is not valid, then setHydrated()
RehydrateThen ==
    /\ \E v \in validations, isValid \in BOOLEAN :
        /\ v.by = "rehydrate"
        /\ PersistSet(setHydrated(IF isValid THEN store ELSE logout(store)))
        /\ loggedOut' = (loggedOut \/ ~isValid)
        /\ validations' = validations \ {v}
    /\ UNCHANGED <<serverVars, tagVars>>

NextStore ==
    \/ StoreLogin \/ StoreLogout \/ StoreUpdateUser \/ StorageSetToken
    \/ StoreInitialize \/ StoreInitializeThen \/ Rehydrate \/ RehydrateThen

SpecStore == Init /\ [][NextStore]_vars

====
